---- MODULE Spec2Model ----
(***************************************************************************)
(* Pending-content store, approval handlers and topic watcher of the      *)
(* call-automation service.                                                *)
(*                                                                         *)
(* The service is one Node.js process: a handler runs without preemption   *)
(* until it awaits an external call (durable store query, e-mail or        *)
(* community send, chat API, semantic classifier).  Every action below is  *)
(* one such run-to-await segment of one handler, or the completion of one  *)
(* external call.                                                          *)
(*                                                                         *)
(* Store clock: one tick is 24 hours, so EXPIRY_MS (24 h) is 1 tick.       *)
(* Watcher clock: one unit is 4 hours, so the topic-request window (4 h)   *)
(* is 1, the duplicate window (24 h) is 6 and the tracked-request expiry   *)
(* (48 h) is 12.                                                           *)
(***************************************************************************)
EXTENDS Integers, Sequences, FiniteSets, TLC

VARIABLES
    now,            \* wall clock (Date.now() / NOW()), in ticks
    dbConfigured,   \* isDatabaseConfigured(): env.DATABASE_URL is set
    nextId,         \* number of ids generateId() has produced
    pendingCache,   \* pending-store.ts pendingCache: id -> item or NoItem
    db,             \* table pending_messages: id -> row or NoItem
    inserts,        \* INSERTs issued by storePending and not yet executed
    fetches,        \* getPending's background getPendingAsync(id).then(...)
    tasks,          \* handler invocations, by call number: running or done
    rendered,       \* channel of the approval buttons rendered for each id
    stored,         \* ghost: when this process stored each id (-1: not, or deleted)
    approvedOk,     \* ghost: ids for which an approve returned success
    edited,         \* ghost: ids for which a set-message returned success
    unhandled,      \* ghost: a promise rejection was left unhandled
    calls,          \* number of store calls and handler invocations so far
    wnow,           \* watcher clock (Date.now()), in units of 4 hours
    nextTs,         \* number of chat events delivered so far (their ts)
    processedTopics,       \* topic-watcher.ts processedTopics: ts -> record
    pendingTopicRequest,   \* topic-watcher.ts pendingTopicRequest or NoRequest
    topicRequestMessages,  \* topic-watcher.ts topicRequestMessages: ts -> time
    recentMessages, \* topic-watcher.ts recentMessages (the ts of each entry)
    channelLog,     \* ghost: the ts of the non-empty messages of the watched
                    \* channel outside threads since the process started
    handlers,       \* chat-event handler invocations, by ts: running or done
    accepted,       \* ghost: every topic accepted so far, with its time
    requestedAt,    \* ghost: arrival time of the last topic request, or -1
    acceptedSince,  \* ghost: a topic was accepted after the last request
    sentMessages,   \* table sent_messages: the rows logSentMessage inserted
    chat,           \* the Slack calls the edit handlers have made, in order
    processedMentions, \* mention handler's processedMentions: key -> time
    mentionLog,     \* ghost: per mention, its text, the time of the last run of
                    \* handleAppMention that passed the dedup, the number of
                    \* such runs, and whether one started within the window
                    \* of the run before
    callHistory     \* table call_history: meeting id -> row or NoRow

storeVars == <<now, dbConfigured, nextId, pendingCache, db, inserts, fetches,
               tasks, rendered, stored, approvedOk, edited, unhandled, calls>>

topicVars == <<wnow, nextTs, processedTopics, pendingTopicRequest,
               topicRequestMessages, recentMessages, channelLog, handlers,
               accepted, requestedAt, acceptedSince>>

historyVars == <<sentMessages, callHistory, chat>>

mentionVars == <<processedMentions, mentionLog>>

vars == <<storeVars, topicVars, historyVars, mentionVars>>

----------------------------------------------------------------------------
\* Bounds of the model

MaxTime == 2
MaxCalls == 3
MaxMsgs == 3
MaxMeetings == 1
MaxBufferMsgs == 14
MaxRuns == 2

\* Program constants (in clock ticks)
EXPIRY_MS == 1

Ids == 1..MaxCalls
Slots == 1..MaxCalls

\* Inputs of storePending: the CreatePendingInput values the generators pass
CreateInputs ==
    { [type |-> "reminder", channel |-> "email", callType |-> "weekly",
       slackChannel |-> "D1", slackMessageTs |-> 100],
      [type |-> "recap", channel |-> "circle", callType |-> "monthly",
       slackChannel |-> "D1", slackMessageTs |-> 100] }

\* The same for the runs about editing: previews rendered in two threads
EditInputs ==
    { [type |-> "reminder", channel |-> "email", callType |-> "weekly",
       slackChannel |-> "D1", slackMessageTs |-> 100],
      [type |-> "recap", channel |-> "circle", callType |-> "monthly",
       slackChannel |-> "D2", slackMessageTs |-> 200] }

OriginalMessage == "m0"
NewMessages == {"m1"}

\* Texts claude.regenerateMessageWithFeedback returns
RegeneratedMessages == {"m2"}

\* config.activeCampaignWeeklyListId / activeCampaignMonthlyListId values
ListIds == {0, 7}

NoItem ==
    [id |-> 0, type |-> "", channel |-> "", callType |-> "", message |-> "",
     slackChannel |-> "", slackMessageTs |-> 0,
     createdAt |-> 0, expiresAt |-> 0]

\* Variant of the `pending` object whose expiry is not moved by EXPIRY_MS
NewPendingExpiresAtOnce(id, input, message, t) ==
    [id |-> id, type |-> input.type, channel |-> input.channel,
     callType |-> input.callType, message |-> message,
     slackChannel |-> input.slackChannel, slackMessageTs |-> input.slackMessageTs,
     createdAt |-> t, expiresAt |-> t]

\* storePending's `pending` object
NewPending(id, input, message, t) ==
    [id |-> id, type |-> input.type, channel |-> input.channel,
     callType |-> input.callType, message |-> message,
     slackChannel |-> input.slackChannel, slackMessageTs |-> input.slackMessageTs,
     createdAt |-> t, expiresAt |-> t + EXPIRY_MS]

IdleTask ==
    [kind |-> "idle", id |-> 0, pc |-> "idle", q |-> "none", row |-> NoItem,
     repop |-> FALSE, body |-> "", hadCached |-> FALSE, sent |-> FALSE,
     result |-> "none", afterOk |-> FALSE, afterEdit |-> FALSE, rows |-> {},
     response |-> "none"]

----------------------------------------------------------------------------
\* Pending-content store (services/pending-store.ts)

\* `new Date() > cached.expiresAt`
CacheExpired(item) == now > item.expiresAt

\* Variant of the query with an inclusive bound: expires_at >= NOW()
SelectRowInclusive(id) ==
    IF db[id] # NoItem /\ db[id].expiresAt >= now THEN db[id] ELSE NoItem

\* getPendingAsync's query: SELECT ... WHERE id = $1 AND expires_at > NOW()
SelectRow(id) ==
    IF db[id] # NoItem /\ db[id].expiresAt > now THEN db[id] ELSE NoItem

\* The value getPending(id) returns in the current state
getPendingRet(id) ==
    IF pendingCache[id] # NoItem /\ ~CacheExpired(pendingCache[id])
    THEN pendingCache[id]
    ELSE NoItem

\* Variant of storePending that leaves the cache to the INSERT's completion
\* when a durable store is configured
CacheAfterStoreDeferred(id, pending) ==
    IF dbConfigured THEN pendingCache ELSE [pendingCache EXCEPT ![id] = pending]

\* storePending: the cache is written first, the INSERT is fire-and-forget
CacheAfterStore(id, pending) == [pendingCache EXCEPT ![id] = pending]

StorePending(input) ==
    /\ calls < MaxCalls
    /\ calls' = calls + 1
    /\ LET id == nextId + 1
           pending == NewPending(id, input, OriginalMessage, now)
       IN /\ nextId' = id
          /\ pendingCache' = CacheAfterStore(id, pending)
          /\ inserts' = IF dbConfigured THEN inserts \cup {pending} ELSE inserts
          /\ stored' = [stored EXCEPT ![id] = now]
          /\ rendered' = [rendered EXCEPT ![id] = input.channel]
    /\ UNCHANGED <<now, dbConfigured, db, fetches, tasks, approvedOk, edited,
                   unhandled>>
    /\ UNCHANGED topicVars
    /\ UNCHANGED historyVars
    /\ UNCHANGED mentionVars

\* The durable store executes (or rejects) the INSERT of storePending; a
\* rejection is caught by the .catch() and only logged
InsertExec(row, ok) ==
    /\ row \in inserts
    /\ inserts' = inserts \ {row}
    /\ db' = IF ok THEN [db EXCEPT ![row.id] = row] ELSE db
    /\ UNCHANGED <<now, dbConfigured, rendered, nextId, pendingCache, fetches, tasks,
                   stored, approvedOk, edited,
                   unhandled, calls>>
    /\ UNCHANGED topicVars
    /\ UNCHANGED historyVars
    /\ UNCHANGED mentionVars

\* getPending (synchronous read): serves the cache, drops an expired entry,
\* and on a miss starts getPendingAsync(id).then(...) in the background
GetPending(id) ==
    /\ id \in 1..nextId
    /\ calls < MaxCalls
    /\ calls' = calls + 1
    /\ IF pendingCache[id] # NoItem
       THEN /\ pendingCache' =
                 IF CacheExpired(pendingCache[id])
                 THEN [pendingCache EXCEPT ![id] = NoItem]
                 ELSE pendingCache
            /\ UNCHANGED fetches
       ELSE /\ UNCHANGED pendingCache
            /\ IF dbConfigured /\ ~(\E f \in fetches : f.id = id)
               THEN fetches' = fetches \cup
                        {[id |-> id, st |-> "pending", row |-> NoItem]}
               ELSE UNCHANGED fetches
    /\ UNCHANGED <<now, dbConfigured, rendered, nextId, db, inserts, tasks, stored,
                   approvedOk, edited,
                   unhandled>>
    /\ UNCHANGED topicVars
    /\ UNCHANGED historyVars
    /\ UNCHANGED mentionVars

\* The durable store answers the background SELECT of getPending; a
\* rejection has no handler attached (.then without .catch)
FetchExec(f, ok) ==
    /\ f \in fetches
    /\ f.st = "pending"
    /\ IF ok
       THEN /\ fetches' = (fetches \ {f}) \cup
                    {[f EXCEPT !.st = "done", !.row = SelectRow(f.id)]}
            /\ UNCHANGED unhandled
       ELSE /\ fetches' = fetches \ {f}
            /\ unhandled' = TRUE
    /\ UNCHANGED <<now, dbConfigured, rendered, nextId, pendingCache, db, inserts, tasks,
                   stored, approvedOk, edited, calls>>
    /\ UNCHANGED topicVars
    /\ UNCHANGED historyVars
    /\ UNCHANGED mentionVars

\* getPending's .then callback: `if (pending) pendingCache.set(id, pending)`
FetchThen(f) ==
    /\ f \in fetches
    /\ f.st = "done"
    /\ fetches' = fetches \ {f}
    /\ pendingCache' = IF f.row # NoItem
                       THEN [pendingCache EXCEPT ![f.id] = f.row]
                       ELSE pendingCache
    /\ UNCHANGED <<now, dbConfigured, rendered, nextId, db, inserts, tasks, stored,
                   approvedOk, edited,
                   unhandled, calls>>
    /\ UNCHANGED topicVars
    /\ UNCHANGED historyVars
    /\ UNCHANGED mentionVars

----------------------------------------------------------------------------
\* Handlers (workflows/approval-handler.ts) and the store calls they await

SetTask(t, task) == tasks' = [tasks EXCEPT ![t] = task]

\* The n-th call of a behaviour runs in slot n
Free(t) == t = calls + 1

\* The handler returns (or throws): only what it reported is kept
Finish(task, result) ==
    [IdleTask EXCEPT !.kind = task.kind, !.id = task.id, !.pc = "done",
                     !.result = result, !.sent = task.sent,
                     !.afterOk = task.afterOk, !.afterEdit = task.afterEdit,
                     !.rows = task.rows]

ApproveKinds == {"approveEmail", "approveCircle"}

\* The approve action the rendered blocks of a channel carry (approve_email
\* on e-mail previews, approve_circle on community previews)
ApproveButton(channel) ==
    IF channel = "email" THEN "approveEmail" ELSE "approveCircle"

\* A handler invocation for an id some rendered button carries
NewTask(kind, id) ==
    [IdleTask EXCEPT !.kind = kind, !.id = id,
                     !.afterOk = (kind \in ApproveKinds \cup {"get"} /\ approvedOk[id]),
                     !.afterEdit = (kind \in ApproveKinds /\ edited[id])]

\* handleEmailApproval / handleCircleApproval from `if (!pending)` up to the
\* awaited send: the list id is resolved, then the send is called with
\* body: pending.message
ApproveNext(task, pending) ==
    IF task.kind = "approveEmail"
    THEN { IF listId = 0
           THEN Finish(task, "nolist")
           ELSE [task EXCEPT !.pc = "send", !.body = pending.message]
           : listId \in ListIds }
    ELSE { [task EXCEPT !.pc = "send", !.body = pending.message] }

\* What each handler does, up to its next await, once
\* getPendingWithFallback has returned a non-null `pending`
AfterGet(task, pending) ==
    CASE task.kind \in ApproveKinds -> ApproveNext(task, pending)
      [] task.kind = "modal" -> { [task EXCEPT !.pc = "post", !.row = pending] }
      [] task.kind = "aiedit" -> { [task EXCEPT !.pc = "regen", !.row = pending] }
      [] OTHER -> { Finish(task, "found") }

\* getPendingWithFallback up to its first await, on the cache as the
\* handler's earlier code in the same segment left it: a live entry is
\* returned, an expired one is dropped and getPendingAsync is returned, a
\* miss awaits getPendingAsync (which resolves null without a database)
GetWithFallback(t, task, cache) ==
    LET cached == cache[task.id] IN
    IF cached # NoItem /\ ~CacheExpired(cached)
    THEN /\ \E nt \in AfterGet(task, cached) : SetTask(t, nt)
         /\ pendingCache' = cache
    ELSE /\ pendingCache' = [cache EXCEPT ![task.id] = NoItem]
         /\ IF dbConfigured
            THEN SetTask(t, [task EXCEPT !.pc = "select", !.q = "pending",
                                         !.repop = (cached = NoItem)])
            ELSE SetTask(t, Finish(task, "notfound"))

\* A handler is invoked that starts with
\* `await pendingStore.getPendingWithFallback(pendingId)`: an approve, or a
\* plain read ("get")
Invoke(t, kind, id) ==
    /\ Free(t)
    /\ id \in 1..nextId
    /\ calls < MaxCalls
    /\ calls' = calls + 1
    /\ GetWithFallback(t, NewTask(kind, id), pendingCache)
    /\ UNCHANGED <<now, dbConfigured, rendered, nextId, db, inserts, fetches, stored,
                   approvedOk, edited,
                   unhandled>>
    /\ UNCHANGED topicVars
    /\ UNCHANGED historyVars
    /\ UNCHANGED mentionVars

\* getAllPending's query: SELECT * FROM pending_messages WHERE expires_at >
\* NOW() (the ids of the rows it returns)
ListedRows == {id \in Ids : SelectRow(id) # NoItem}

\* getAllPending up to its await: the expired entries are dropped from the
\* cache; without a database the cache's values are returned
GetAllPending(t) ==
    LET cache == [id \in Ids |->
                     IF pendingCache[id] # NoItem /\ CacheExpired(pendingCache[id])
                     THEN NoItem ELSE pendingCache[id]]
        task == NewTask("list", 0)
    IN
    /\ Free(t)
    /\ calls < MaxCalls
    /\ calls' = calls + 1
    /\ pendingCache' = cache
    /\ SetTask(t, IF dbConfigured
                  THEN [task EXCEPT !.pc = "selectall", !.q = "pending"]
                  ELSE Finish([task EXCEPT !.rows = {id \in Ids : cache[id] # NoItem}],
                              "listed"))
    /\ UNCHANGED <<now, dbConfigured, rendered, nextId, db, inserts, fetches, stored,
                   approvedOk, edited, unhandled>>
    /\ UNCHANGED topicVars
    /\ UNCHANGED historyVars
    /\ UNCHANGED mentionVars

\* The durable store answers the query of getAllPending, whose rows are
\* returned; a rejection propagates to the caller (no try block)
ListDone(t, ok) ==
    /\ tasks[t].pc = "selectall"
    /\ SetTask(t, IF ok
                  THEN Finish([tasks[t] EXCEPT !.q = "none", !.rows = ListedRows], "listed")
                  ELSE Finish([tasks[t] EXCEPT !.q = "none"], "threw"))
    /\ UNCHANGED <<now, dbConfigured, rendered, nextId, pendingCache, db, inserts,
                   fetches, stored, approvedOk, edited, unhandled, calls>>
    /\ UNCHANGED topicVars
    /\ UNCHANGED historyVars
    /\ UNCHANGED mentionVars

\* The durable store answers (or rejects) the SELECT of getPendingAsync
DbSelect(t, ok) ==
    /\ tasks[t].pc = "select"
    /\ tasks[t].q = "pending"
    /\ SetTask(t, IF ok
                  THEN [tasks[t] EXCEPT !.q = "ok", !.row = SelectRow(tasks[t].id)]
                  ELSE [tasks[t] EXCEPT !.q = "err"])
    /\ UNCHANGED <<now, dbConfigured, rendered, nextId, pendingCache, db, inserts,
                   fetches, stored, approvedOk, edited,
                   unhandled, calls>>
    /\ UNCHANGED topicVars
    /\ UNCHANGED historyVars
    /\ UNCHANGED mentionVars

\* getPendingWithFallback resumes: a rejected query propagates out of the
\* handler (the call is outside its try block); a row found on a miss is put
\* in the cache, a row found after dropping an expired entry is not
Selected(t) ==
    LET task == [tasks[t] EXCEPT !.q = "none"] IN
    /\ tasks[t].pc = "select"
    /\ tasks[t].q \in {"ok", "err"}
    /\ IF tasks[t].q = "err"
       THEN /\ SetTask(t, Finish(task, "threw"))
            /\ UNCHANGED pendingCache
       ELSE IF task.row = NoItem
       THEN /\ SetTask(t, Finish(task, "notfound"))
            /\ UNCHANGED pendingCache
       ELSE /\ \E nt \in AfterGet(task, task.row) : SetTask(t, nt)
            /\ pendingCache' = IF task.repop
                               THEN [pendingCache EXCEPT ![task.id] = task.row]
                               ELSE pendingCache
    /\ UNCHANGED <<now, dbConfigured, rendered, nextId, db, inserts, fetches, stored,
                   approvedOk, edited,
                   unhandled, calls>>
    /\ UNCHANGED topicVars
    /\ UNCHANGED historyVars
    /\ UNCHANGED mentionVars

\* Outcomes of activeCampaign.sendCampaign / circle.createPost
SendOutcomes(kind) ==
    IF kind = "approveEmail" THEN {"ok", "rejected", "throw"} ELSE {"ok", "throw"}

\* Variant of the send's completion whose failure path also drops the item
\* from the cache
SendDoneDropsItem(t, outcome) ==
    /\ tasks[t].pc = "send"
    /\ outcome \in SendOutcomes(tasks[t].kind)
    /\ SetTask(t, IF outcome = "ok"
                  THEN [tasks[t] EXCEPT !.pc = "confirm", !.sent = TRUE]
                  ELSE Finish(tasks[t], "sendfail"))
    /\ pendingCache' = IF outcome = "ok"
                       THEN pendingCache
                       ELSE [pendingCache EXCEPT ![tasks[t].id] = NoItem]
    /\ UNCHANGED <<now, dbConfigured, rendered, nextId, db, inserts,
                   fetches, stored, approvedOk, edited,
                   unhandled, calls>>
    /\ UNCHANGED topicVars
    /\ UNCHANGED historyVars
    /\ UNCHANGED mentionVars

\* The external send completes.  Success goes on to the awaited
\* slack.updateMessage; `!result.success` and a throw both reach the catch
\* block, which returns the failure and leaves the store alone
SendDone(t, outcome) ==
    /\ tasks[t].pc = "send"
    /\ outcome \in SendOutcomes(tasks[t].kind)
    /\ SetTask(t, IF outcome = "ok"
                  THEN [tasks[t] EXCEPT !.pc = "confirm", !.sent = TRUE]
                  ELSE Finish(tasks[t], "sendfail"))
    /\ UNCHANGED <<now, dbConfigured, rendered, nextId, pendingCache, db, inserts,
                   fetches, stored, approvedOk, edited,
                   unhandled, calls>>
    /\ UNCHANGED topicVars
    /\ UNCHANGED historyVars
    /\ UNCHANGED mentionVars

\* deletePending up to its await: `existed = has(id); pendingCache.delete(id)`
\* (the task keeps `existed` in hadCached)
CacheAfterDelete(id) == [pendingCache EXCEPT ![id] = NoItem]

\* slack.updateMessage completes.  On success deletePending runs; a throw is
\* caught and returned as a failure
ConfirmDone(t, ok) ==
    /\ tasks[t].pc = "confirm"
    /\ IF ok
       THEN /\ pendingCache' = CacheAfterDelete(tasks[t].id)
            /\ stored' = [stored EXCEPT ![tasks[t].id] = -1]
            /\ IF dbConfigured
               THEN /\ SetTask(t, [tasks[t] EXCEPT
                                      !.pc = "delete", !.q = "pending",
                                      !.hadCached = (pendingCache[tasks[t].id] # NoItem)])
                    /\ UNCHANGED approvedOk
               ELSE /\ SetTask(t, Finish(tasks[t], "success"))
                    /\ approvedOk' = [approvedOk EXCEPT ![tasks[t].id] = TRUE]
       ELSE /\ SetTask(t, Finish(tasks[t], "confirmfail"))
            /\ UNCHANGED <<pendingCache, stored, approvedOk>>
    /\ UNCHANGED <<now, dbConfigured, rendered, nextId, db, inserts, fetches, edited,
                   unhandled, calls>>
    /\ UNCHANGED topicVars
    /\ UNCHANGED historyVars
    /\ UNCHANGED mentionVars

\* The durable store executes (or rejects) DELETE FROM pending_messages
DbDelete(t, ok) ==
    /\ tasks[t].pc = "delete"
    /\ tasks[t].q = "pending"
    /\ SetTask(t, [tasks[t] EXCEPT !.q = IF ok THEN "ok" ELSE "err"])
    /\ db' = IF ok THEN [db EXCEPT ![tasks[t].id] = NoItem] ELSE db
    /\ UNCHANGED <<now, dbConfigured, rendered, nextId, pendingCache, inserts, fetches,
                   stored, approvedOk, edited,
                   unhandled, calls>>
    /\ UNCHANGED topicVars
    /\ UNCHANGED historyVars
    /\ UNCHANGED mentionVars

\* deletePending resumes (a rejected DELETE was caught and logged) and the
\* approve handler returns { success: true }
Deleted(t) ==
    /\ tasks[t].pc = "delete"
    /\ tasks[t].q \in {"ok", "err"}
    /\ SetTask(t, Finish([tasks[t] EXCEPT !.q = "none"], "success"))
    /\ approvedOk' = [approvedOk EXCEPT ![tasks[t].id] = TRUE]
    /\ UNCHANGED <<now, dbConfigured, rendered, nextId, pendingCache, db, inserts,
                   fetches, stored, edited,
                   unhandled, calls>>
    /\ UNCHANGED topicVars
    /\ UNCHANGED historyVars
    /\ UNCHANGED mentionVars

\* The interactions endpoint after `await approvalHandler.handleEmailApproval`
\* / handleCircleApproval has resolved (approve_email, approve_circle): on
\* success `return res.json({ ok: true })`; on failure the warning is posted
\* in the thread first (awaited; chat keeps the previews only), and a throw
\* of that post reaches the endpoint's catch, which answers 500
Respond(t, ok) ==
    /\ tasks[t].kind \in ApproveKinds
    /\ tasks[t].pc = "done"
    /\ tasks[t].response = "none"
    /\ tasks[t].result = "success" => ok
    /\ SetTask(t, [tasks[t] EXCEPT !.response = IF ok THEN "ok" ELSE "error"])
    /\ UNCHANGED <<now, dbConfigured, rendered, nextId, pendingCache, db, inserts,
                   fetches, stored, approvedOk, edited,
                   unhandled, calls>>
    /\ UNCHANGED topicVars
    /\ UNCHANGED historyVars
    /\ UNCHANGED mentionVars

\* An update that would also restart the item's 24 hours
CacheAfterUpdateRenews(id, m) ==
    IF pendingCache[id] # NoItem
    THEN [pendingCache EXCEPT ![id].message = m, ![id].createdAt = now,
                              ![id].expiresAt = now + 1]
    ELSE pendingCache

\* updatePendingMessage up to its await: `if (cached) cached.message = m`
CacheAfterUpdate(id, m) ==
    IF pendingCache[id] # NoItem
    THEN [pendingCache EXCEPT ![id].message = m]
    ELSE pendingCache

\* handleModalSubmission after updatePendingMessage has resolved: false
\* (nothing was cached when it started) is answered as not found, otherwise
\* the item is fetched again and the preview is posted
AfterUpdate(t, task, cache) ==
    IF task.kind = "aiedit"
    THEN /\ SetTask(t, [task EXCEPT !.pc = "post"])
         /\ pendingCache' = cache
    ELSE IF task.hadCached
    THEN GetWithFallback(t, task, cache)
    ELSE /\ SetTask(t, Finish(task, "notfound"))
         /\ pendingCache' = cache

\* handleModalSubmission(pendingId, newMessage) is invoked
ModalInvoke(t, id, m) ==
    LET task == [NewTask("modal", id) EXCEPT
                    !.body = m, !.hadCached = (pendingCache[id] # NoItem)]
    IN
    /\ Free(t)
    /\ id \in 1..nextId
    /\ calls < MaxCalls
    /\ calls' = calls + 1
    /\ IF dbConfigured
       THEN /\ SetTask(t, [task EXCEPT !.pc = "update", !.q = "pending"])
            /\ pendingCache' = CacheAfterUpdate(id, m)
       ELSE AfterUpdate(t, task, CacheAfterUpdate(id, m))
    /\ UNCHANGED <<now, dbConfigured, rendered, nextId, db, inserts, fetches, stored,
                   approvedOk, edited,
                   unhandled>>
    /\ UNCHANGED topicVars
    /\ UNCHANGED historyVars
    /\ UNCHANGED mentionVars

\* The durable store executes (or rejects)
\* UPDATE pending_messages SET message = $1 WHERE id = $2 AND expires_at > NOW()
DbUpdate(t, ok) ==
    LET id == tasks[t].id IN
    /\ tasks[t].pc = "update"
    /\ tasks[t].q = "pending"
    /\ SetTask(t, [tasks[t] EXCEPT !.q = IF ok THEN "ok" ELSE "err"])
    /\ db' = IF ok /\ db[id] # NoItem /\ db[id].expiresAt > now
             THEN [db EXCEPT ![id].message = tasks[t].body]
             ELSE db
    /\ UNCHANGED <<now, dbConfigured, rendered, nextId, pendingCache, inserts, fetches,
                   stored, approvedOk, edited,
                   unhandled, calls>>
    /\ UNCHANGED topicVars
    /\ UNCHANGED historyVars
    /\ UNCHANGED mentionVars

\* updatePendingMessage without its catch: a rejected UPDATE ends the handler
UpdatedRethrows(t) ==
    /\ tasks[t].pc = "update"
    /\ tasks[t].q \in {"ok", "err"}
    /\ IF tasks[t].q = "err"
       THEN /\ SetTask(t, Finish(tasks[t], "threw"))
            /\ UNCHANGED pendingCache
       ELSE AfterUpdate(t, [tasks[t] EXCEPT !.q = "none"], pendingCache)
    /\ UNCHANGED <<now, dbConfigured, rendered, nextId, db, inserts, fetches, stored,
                   approvedOk, edited,
                   unhandled, calls>>
    /\ UNCHANGED topicVars
    /\ UNCHANGED historyVars
    /\ UNCHANGED mentionVars

\* updatePendingMessage resumes (a rejected UPDATE was caught and logged)
Updated(t) ==
    /\ tasks[t].pc = "update"
    /\ tasks[t].q \in {"ok", "err"}
    /\ AfterUpdate(t, [tasks[t] EXCEPT !.q = "none"], pendingCache)
    /\ UNCHANGED <<now, dbConfigured, rendered, nextId, db, inserts, fetches, stored,
                   approvedOk, edited,
                   unhandled, calls>>
    /\ UNCHANGED topicVars
    /\ UNCHANGED historyVars
    /\ UNCHANGED mentionVars

\* A preview that would replace the chat message rendered before
UpdatePreview(pending, pendingId) ==
    [op |-> "updateMessage", channel |-> pending.slackChannel,
     thread_ts |-> pending.slackMessageTs, pendingId |-> pendingId]

\* slack.postMessage(pending.slackChannel, text, blocks, undefined,
\* pending.slackMessageTs): a new message in the thread of the item's origin;
\* the value of each button of its blocks is pendingId
PostPreview(pending, pendingId) ==
    [op |-> "postMessage", channel |-> pending.slackChannel,
     thread_ts |-> pending.slackMessageTs, pendingId |-> pendingId]

\* slack.postMessage of the updated preview completes
PostDone(t, ok) ==
    /\ tasks[t].pc = "post"
    /\ IF ok
       THEN /\ SetTask(t, Finish(tasks[t], "success"))
            /\ edited' = [edited EXCEPT ![tasks[t].id] = TRUE]
            /\ chat' = Append(chat, PostPreview(tasks[t].row, tasks[t].id))
       ELSE /\ SetTask(t, Finish(tasks[t], "postfail"))
            /\ UNCHANGED <<edited, chat>>
    /\ UNCHANGED <<now, dbConfigured, rendered, nextId, pendingCache, db, inserts,
                   fetches, stored, approvedOk,
                   unhandled, calls>>
    /\ UNCHANGED topicVars
    /\ UNCHANGED <<sentMessages, callHistory>>
    /\ UNCHANGED mentionVars

\* claude.regenerateMessageWithFeedback returns the regenerated text, or
\* throws (caught, the handler returns a failure); with the text,
\* handleAiEditModalSubmission calls updatePendingMessage, whose result it
\* does not read
RegenDone(t, m, ok) ==
    LET task == [tasks[t] EXCEPT !.body = m,
                                 !.hadCached = (pendingCache[tasks[t].id] # NoItem)]
    IN
    /\ tasks[t].pc = "regen"
    /\ IF ~ok
       THEN /\ SetTask(t, Finish(tasks[t], "regenfail"))
            /\ UNCHANGED pendingCache
       ELSE IF dbConfigured
       THEN /\ SetTask(t, [task EXCEPT !.pc = "update", !.q = "pending"])
            /\ pendingCache' = CacheAfterUpdate(task.id, m)
       ELSE AfterUpdate(t, task, CacheAfterUpdate(task.id, m))
    /\ UNCHANGED <<now, dbConfigured, rendered, nextId, db, inserts, fetches, stored,
                   approvedOk, edited, unhandled, calls>>
    /\ UNCHANGED topicVars
    /\ UNCHANGED historyVars
    /\ UNCHANGED mentionVars

----------------------------------------------------------------------------
\* Texts.  A text is a tuple of one-character strings (UTF-16 code units);
\* the sample texts are ASCII.

Upper == <<"A", "B", "C", "D", "E", "F", "G", "H", "I", "J", "K", "L", "M", "N", "O", "P", "Q", "R", "S", "T", "U", "V", "W", "X", "Y", "Z">>
LowerLetters == <<"a", "b", "c", "d", "e", "f", "g", "h", "i", "j", "k", "l", "m", "n", "o", "p", "q", "r", "s", "t", "u", "v", "w", "x", "y", "z">>
Digits == {"0", "1", "2", "3", "4", "5", "6", "7", "8", "9"}

\* String.prototype.toLowerCase
toLowerCaseChar(c) ==
    IF \E i \in 1..26 : Upper[i] = c
    THEN LowerLetters[CHOOSE i \in 1..26 : Upper[i] = c]
    ELSE c

toLowerCase(s) == [i \in 1..Len(s) |-> toLowerCaseChar(s[i])]

\* White space (\s, and what trim strips) and the line terminators that
\* `.` does not match
WhiteSpace == {" ", "\t", "\n", "\r"}
LineTerminators == {"\n", "\r"}

\* \w
WordChars ==
    {Upper[i] : i \in 1..26} \cup {LowerLetters[i] : i \in 1..26} \cup Digits \cup {"_"}

RECURSIVE trimStart(_)
trimStart(s) ==
    IF s # <<>> /\ Head(s) \in WhiteSpace THEN trimStart(Tail(s)) ELSE s

RECURSIVE trimEnd(_)
trimEnd(s) ==
    IF s # <<>> /\ s[Len(s)] \in WhiteSpace
    THEN trimEnd(SubSeq(s, 1, Len(s) - 1))
    ELSE s

\* String.prototype.trim
trim(s) == trimEnd(trimStart(s))

\* String.prototype.includes
includes(s, sub) ==
    \E i \in 0..(Len(s) - Len(sub)) : SubSeq(s, i + 1, i + Len(sub)) = sub

\* The word w stands in s at position i
OccursAt(s, w, i) ==
    /\ i + Len(w) - 1 <= Len(s)
    /\ SubSeq(s, i, i + Len(w) - 1) = w

\* /^(w1|w2|...)/
startsWith(s, words) == \E w \in words : OccursAt(s, w, 1)

\* /^(w1|w2|...)[class]*$/
MatchesWordOnly(s, words, class) ==
    \E w \in words :
        /\ OccursAt(s, w, 1)
        /\ \A k \in (Len(w) + 1)..Len(s) : s[k] \in class

\* The rest of /...(a1|a2).*(b1|b2).../ from position `from` on: each part
\* is a set of alternatives, `.*` lies between the parts
RECURSIVE MatchesRest(_, _, _)
MatchesRest(s, from, parts) ==
    \/ parts = <<>>
    \/ \E w \in Head(parts), j \in from..Len(s) :
          /\ OccursAt(s, w, j)
          /\ \A k \in from..(j - 1) : s[k] \notin LineTerminators
          /\ MatchesRest(s, j + Len(w), Tail(parts))

\* /(a1|a2).*(b1|b2).*.../ found anywhere in s
MatchesChain(s, parts) ==
    \E w \in Head(parts), i \in 1..Len(s) :
        /\ OccursAt(s, w, i)
        /\ MatchesRest(s, i + Len(w), Tail(parts))

----------------------------------------------------------------------------
\* Topic watcher (workflows/topic-watcher.ts), classifier (services/claude.ts)
\* and mention handler

\* Program constants (in watcher clock units)
DUPLICATE_WINDOW_MS == 6
TOPIC_REQUEST_WINDOW_MS == 1
TOPIC_REQUEST_MESSAGE_EXPIRY_MS == 12
MAX_RECENT_MESSAGES == 12

\* The mention handler's DUPLICATE_WINDOW_MS, one minute: less than one unit
\* of the watcher clock
MENTION_WINDOW_MS == 0

\* The instants at which chat events and completions happen: 0 h, 4 h and
\* 28 h after the first event, so that 4 h, 24 h and 28 h can lie between two
\* of them
Instants == {0, 1, 7}

\* The same with an instant 52 h after the first event, so that more than
\* 48 h can lie between two of them
LateInstants == {0, 1, 7, 13}

Ts == 1..MaxMsgs

\* Texts of the chat events
SampleTexts ==
    << <<>>,
       <<"T", "h", "a", "n", "k", "s", "!">>,
       <<"s", "o", "u", "n", "d", "s", " ", "g", "o", "o", "d", "!">>,
       <<"s", "e", "o", " ", "b", "a", "s", "i", "c", "s">>,
       <<"E", "m", "a", "i", "l", " ", "F", "u", "n", "n", "e", "l", " ", "B", "r", "e", "a", "k", "d", "o", "w", "n">>,
       <<"W", "h", "a", "t", " ", "i", "s", " ", "t", "h", "e", " ", "t", "o", "p", "i", "c", " ", "f", "o", "r", " ", "t", "o", "m", "o", "r", "r", "o", "w", "?">>,
       <<"w", "i", "l", "l", " ", "p", "o", "s", "t", " ", "t", "h", "e", " ", "t", "o", "p", "i", "c", " ", "s", "o", "o", "n">>,
       <<"i", "s", " ", "t", "h", "e", " ", "f", "u", "n", "n", "e", "l", " ", "r", "e", "a", "d", "y", " ", "y", "e", "t", "?">> >>

\* Texts of the mentions, after the bot mention is stripped
MentionTexts == {1, 5}

\* The texts of the channel messages and thread replies of the watcher's runs
ChannelTexts == 1..6

\* The texts of the runs about the request windows: a short candidate, a long
\* candidate, a request, a promise to post later and a question
WindowTexts == {4, 5, 6, 7, 8}

\* Topic titles the classifier returns
TopicTexts ==
    << <<"E", "m", "a", "i", "l", " ", "F", "u", "n", "n", "e", "l">>,
       <<" ", "f", "u", "n", "n", "e", "l", " ">>,
       <<"S", "E", "O">> >>

Topics == DOMAIN TopicTexts

\* What a call of the classifier does: the API call throws, the answer has
\* no parsable JSON, it says isTopic false, or it names a topic
ClassifierOutcomes ==
    {[cls |-> c, topic |-> 0] : c \in {"throw", "unparsable", "no"}}
        \cup {[cls |-> "topic", topic |-> k] : k \in Topics}

\* The classifier's answers in the runs about the request windows: not a
\* topic, or one of two dissimilar topics
WindowOutcomes ==
    {[cls |-> "no", topic |-> 0], [cls |-> "topic", topic |-> 1],
     [cls |-> "topic", topic |-> 3]}

NoRequest == [askedAt |-> -1, message |-> 0]
NoTopic == [topic |-> 0, timestamp |-> -1]
NotTracked == -1
NoMention == [text |-> 0, at |-> -1, runs |-> 0, again |-> FALSE]

IdleHandler ==
    [kind |-> "idle", text |-> 0, thread |-> 0, pc |-> "idle",
     expecting |-> FALSE, cls |-> "none", topic |-> 0, result |-> "none"]

\* isTopicRequest: the seven topicRequestPatterns
isTopicRequest(lowerText) ==
    \/ MatchesChain(lowerText, <<{<<"w", "h", "a", "t">>}, {<<"t", "o", "p", "i", "c">>, <<"c", "o", "v", "e", "r", "i", "n", "g">>, <<"d", "o", "i", "n", "g">>}>>)
    \/ \E x \in {<<"t", "o", "m", "o", "r", "r", "o", "w">>, <<"t", "o", "d", "a", "y">>, <<"t", "h", "e", " ", "c", "a", "l", "l">>, <<"t", "h", "i", "s", " ", "w", "e", "e", "k">>, <<"n", "e", "x", "t">>} : includes(lowerText, <<"t", "o", "p", "i", "c", " ", "f", "o", "r", " ">> \o x)
    \/ MatchesChain(lowerText, <<{<<"w", "h", "e", "n", "e", "v", "e", "r", " ", "y", "o", "u", " ", "h", "a", "v", "e">>}, {<<"t", "o", "p", "i", "c">>, <<"i", "t">>}>>)
    \/ MatchesChain(lowerText, <<{<<"l", "e", "t", " ", "m", "e", " ", "k", "n", "o", "w">>}, {<<"t", "o", "p", "i", "c">>, <<"w", "h", "a", "t">>}>>)
    \/ MatchesChain(lowerText, <<{<<"w", "h", "a", "t">>}, {<<"c", "a", "l", "l">>, <<"t", "r", "a", "i", "n", "i", "n", "g">>}, {<<"a", "b", "o", "u", "t">>, <<"o", "n">>, <<"c", "o", "v", "e", "r">>}>>)
    \/ MatchesChain(lowerText, <<{<<"d", "o", " ", "y", "o", "u", " ", "h", "a", "v", "e">>}, {<<"t", "o", "p", "i", "c">>, <<"i", "d", "e", "a", " ", "w", "h", "a", "t">>}>>)
    \/ MatchesChain(lowerText, <<{<<"a", "n", "y", " ", "i", "d", "e", "a">>}, {<<"t", "o", "p", "i", "c">>, <<"w", "h", "a", "t">>}>>)

\* isObviouslyNotTopic: `minLength = expectingTopic ? 10 : 20`
MinLengthAlways20(expectingTopic) == 20

MinLength(expectingTopic) == IF expectingTopic THEN 10 ELSE 20

\* isObviouslyNotTopic: alwaysSkipPatterns
AlwaysSkip(lowerText) ==
    \/ MatchesWordOnly(lowerText, {<<"t", "h", "a", "n", "k", "s">>, <<"t", "h", "a", "n", "k", " ", "y", "o", "u">>, <<"t", "h", "x">>, <<"t", "y">>}, WhiteSpace \cup {"!", "."})
    \/ MatchesWordOnly(lowerText, {<<"o", "k">>, <<"o", "k", "a", "y">>, <<"k">>, <<"k", "k">>, <<"s", "o", "u", "n", "d", "s", " ", "g", "o", "o", "d">>, <<"g", "o", "t", " ", "i", "t">>, <<"p", "e", "r", "f", "e", "c", "t">>}, WhiteSpace \cup {"!", "."})
    \/ startsWith(lowerText, {<<"l", "o", "l">>, <<"l", "m", "a", "o">>, <<"h", "a", "h", "a">>, <<"U+D83D", "U+DE02">>, <<"U+D83E", "U+DD23">>})
    \/ MatchesWordOnly(lowerText, {<<"y", "e", "s">>, <<"n", "o">>, <<"y", "e", "a", "h">>, <<"n", "o", "p", "e">>, <<"y", "e", "p">>, <<"n", "a", "h">>}, WhiteSpace \cup {"!", "."})
    \/ MatchesWordOnly(lowerText, {<<"h", "i">>, <<"h", "e", "y">>, <<"h", "e", "l", "l", "o">>, <<"g", "o", "o", "d", " ", "m", "o", "r", "n", "i", "n", "g">>, <<"g", "m">>}, WhiteSpace \cup {"!", ".", ","})
    \/ startsWith(lowerText, {<<"b", "r", "b">>, <<"g", "t", "g">>, <<"t", "t", "y", "l">>})

\* /^@\w+\s+(thanks|thank|appreciate)/
MatchesMentionThanks(s) ==
    /\ Len(s) >= 1
    /\ s[1] = "@"
    /\ \E i \in 2..Len(s), j \in 3..Len(s) :
          /\ i < j
          /\ \A k \in 2..i : s[k] \in WordChars
          /\ \A k \in (i + 1)..j : s[k] \in WhiteSpace
          /\ \E w \in {<<"t", "h", "a", "n", "k", "s">>, <<"t", "h", "a", "n", "k">>, <<"a", "p", "p", "r", "e", "c", "i", "a", "t", "e">>} : OccursAt(s, w, j + 1)

\* isObviouslyNotTopic: skipWhenNotExpecting
SkipWhenNotExpecting(lowerText) ==
    \/ (Len(lowerText) >= 1 /\ lowerText[Len(lowerText)] = "?")
    \/ MatchesMentionThanks(lowerText)
    \/ MatchesChain(lowerText, <<{<<"w", "i", "l", "l", " ", "s", "h", "a", "r", "e">>, <<"w", "i", "l", "l", " ", "s", "e", "n", "d">>, <<"w", "i", "l", "l", " ", "p", "o", "s", "t">>}, {<<"s", "o", "o", "n">>, <<"l", "a", "t", "e", "r">>, <<"t", "o", "m", "o", "r", "r", "o", "w">>}>>)

\* Variant of the filter in which expecting a topic also waives the canned
\* phrases
isObviouslyNotTopicLenient(lowerText, expectingTopic) ==
    IF Len(lowerText) < MinLength(expectingTopic) THEN TRUE
    ELSE IF expectingTopic THEN FALSE
    ELSE AlwaysSkip(lowerText) \/ SkipWhenNotExpecting(lowerText)

isObviouslyNotTopic(lowerText, expectingTopic) ==
    IF Len(lowerText) < MinLength(expectingTopic) THEN TRUE
    ELSE IF AlwaysSkip(lowerText) THEN TRUE
    ELSE IF expectingTopic THEN FALSE
    ELSE SkipWhenNotExpecting(lowerText)

\* `text.toLowerCase()`, `!text || text.trim().length === 0`,
\* isTopicRequest(lowerText) and isObviouslyNotTopic(lowerText, expecting)
\* for each sample text
LowerTexts == [x \in DOMAIN SampleTexts |-> toLowerCase(SampleTexts[x])]

EmptyTexts == {x \in DOMAIN SampleTexts : Len(trim(SampleTexts[x])) = 0}

RequestTexts == {x \in DOMAIN SampleTexts : isTopicRequest(LowerTexts[x])}

NotTopicTexts ==
    [expectingTopic \in BOOLEAN |->
        {x \in DOMAIN SampleTexts : isObviouslyNotTopic(LowerTexts[x], expectingTopic)}]

\* claude.detectTopicInMessage: the API call is outside its try block, so a
\* failure of the call is thrown; an answer that cannot be parsed gives
\* isTopic false
detectTopicInMessage(o) ==
    [threw |-> o.cls = "throw",
     isTopic |-> o.cls = "topic",
     topic |-> IF o.cls = "topic" THEN o.topic ELSE 0]

\* detectTopicAnnouncement: catches what detectTopicInMessage throws
detectTopicAnnouncement(o) ==
    IF detectTopicInMessage(o).threw
    THEN [threw |-> FALSE, isTopic |-> FALSE, topic |-> 0]
    ELSE detectTopicInMessage(o)

\* The Zoom schedule lookup: the next call is weekly, is monthly, or the
\* lookup fails
ZoomOutcomes == {"weekly", "monthly", "throw"}

\* A determineCallType without its try block
determineCallTypeRethrows(zoom) ==
    [threw |-> zoom = "throw", callType |-> IF zoom = "monthly" THEN "monthly" ELSE "weekly"]

\* determineCallType: catches what the lookup throws and answers 'weekly'
determineCallType(zoom) ==
    [threw |-> FALSE, callType |-> IF zoom = "monthly" THEN "monthly" ELSE "weekly"]

\* notifyAdminOfTopic: openDmChannel and postMessage are inside its try block,
\* whose catch logs the error
notifyAdminOfTopic(ok) == [threw |-> FALSE, posted |-> ok]

\* checkDuplicate: `topic.toLowerCase().trim()`, for each topic title
NormalForms == [k \in Topics |-> trim(toLowerCase(TopicTexts[k]))]

Normalize(topic) == NormalForms[topic]

\* Variant of the comparison that only looks for the candidate inside the
\* existing topic
SimilarOneWay(existing, candidate) ==
    \/ Normalize(existing) = Normalize(candidate)
    \/ includes(Normalize(existing), Normalize(candidate))

\* checkDuplicate: equality or containment in either direction
Similar(existing, candidate) ==
    \/ Normalize(existing) = Normalize(candidate)
    \/ includes(Normalize(existing), Normalize(candidate))
    \/ includes(Normalize(candidate), Normalize(existing))

\* checkDuplicate: entries older than the window are dropped first
PurgedTopics ==
    [k \in Ts |->
        IF /\ processedTopics[k] # NoTopic
           /\ wnow - processedTopics[k].timestamp > DUPLICATE_WINDOW_MS
        THEN NoTopic
        ELSE processedTopics[k]]

\* The value checkDuplicate(topic) returns in the current state
checkDuplicate(topic) ==
    \E k \in Ts :
        /\ PurgedTopics[k] # NoTopic
        /\ Similar(PurgedTopics[k].topic, topic)

\* A buffer that only grows
addToRecentMessagesKeepsAll(ts) == Append(recentMessages, ts)

\* addToRecentMessages
addToRecentMessages(ts) ==
    IF Len(recentMessages) + 1 > MAX_RECENT_MESSAGES
    THEN Tail(Append(recentMessages, ts))
    ELSE Append(recentMessages, ts)

\* trackTopicRequestMessage: drop the entries older than 48 h, add this one
trackTopicRequestMessage(ts) ==
    [k \in Ts |->
        IF k = ts THEN wnow
        ELSE IF /\ topicRequestMessages[k] # NotTracked
                /\ wnow - topicRequestMessages[k] > TOPIC_REQUEST_MESSAGE_EXPIRY_MS
        THEN NotTracked
        ELSE topicRequestMessages[k]]

SetHandler(ts, h) == handlers' = [handlers EXCEPT ![ts] = h]

\* A handler has returned; of its locals the record keeps what the filter
\* saw and what the classifier did
Done(h, result) ==
    [IdleHandler EXCEPT !.kind = h.kind, !.pc = "done", !.result = result,
                        !.cls = h.cls,
                        !.text = IF result = "filtered" THEN h.text ELSE 0,
                        !.expecting = IF result = "filtered" THEN h.expecting ELSE FALSE]

\* The next chat event gets the next ts
Arrives(ts) ==
    /\ ts = nextTs + 1
    /\ ts <= MaxMsgs
    /\ nextTs' = ts

\* The pending topic request with no lazy expiry (a request stays active
\* however old it is)
ActiveRequestNeverExpires == pendingTopicRequest

\* The pending topic request after the lazy expiry of handleChannelMessage:
\* a request older than the window is dropped when the next message is handled
ActiveRequest ==
    IF /\ pendingTopicRequest # NoRequest
       /\ wnow - pendingTopicRequest.askedAt > TOPIC_REQUEST_WINDOW_MS
    THEN NoRequest
    ELSE pendingTopicRequest

\* handleChannelMessage for a message of the watched channel that is not in
\* a thread, up to its first await
ChannelMessage(ts, x) ==
    LET h == [IdleHandler EXCEPT !.kind = "channel", !.text = x]
        request == ActiveRequest
        expectingTopic == request # NoRequest
    IN
    /\ Arrives(ts)
    /\ IF x \in EmptyTexts
       THEN /\ SetHandler(ts, Done(h, "empty"))
            /\ UNCHANGED <<recentMessages, channelLog, pendingTopicRequest,
                           topicRequestMessages, requestedAt, acceptedSince>>
       ELSE /\ recentMessages' = addToRecentMessages(ts)
            /\ channelLog' = Append(channelLog, ts)
            /\ IF x \in RequestTexts
               THEN /\ pendingTopicRequest' = [askedAt |-> wnow, message |-> ts]
                    /\ topicRequestMessages' = trackTopicRequestMessage(ts)
                    /\ SetHandler(ts, Done(h, "request"))
                    /\ requestedAt' = wnow
                    /\ acceptedSince' = FALSE
               ELSE /\ pendingTopicRequest' = request
                    /\ SetHandler(ts,
                          IF x \in NotTopicTexts[expectingTopic]
                          THEN Done([h EXCEPT !.expecting = expectingTopic], "filtered")
                          ELSE [h EXCEPT !.expecting = expectingTopic,
                                         !.pc = "classify"])
                    /\ UNCHANGED <<topicRequestMessages, requestedAt, acceptedSince>>
    /\ UNCHANGED <<wnow, processedTopics, accepted>>
    /\ UNCHANGED storeVars
    /\ UNCHANGED historyVars
    /\ UNCHANGED mentionVars

\* A reply counts as a reply to a topic request only while a request is
\* also pending
IsReplyWhileAwaiting(thread_ts) ==
    /\ topicRequestMessages[thread_ts] # NotTracked
    /\ pendingTopicRequest # NoRequest

\* handleThreadReply: isReplyToTopicRequest, the parent of the reply is in
\* topicRequestMessages
IsReplyToTopicRequest(thread_ts) == topicRequestMessages[thread_ts] # NotTracked

\* handleChannelMessage for a thread reply: handleThreadReply up to its
\* first await
ThreadReply(ts, x, thread_ts) ==
    LET h == [IdleHandler EXCEPT !.kind = "thread", !.text = x, !.thread = thread_ts]
        isReplyToTopicRequest == IsReplyToTopicRequest(thread_ts)
    IN
    /\ Arrives(ts)
    /\ thread_ts \in 1..nextTs
    /\ SetHandler(ts,
          IF x \in EmptyTexts
          THEN Done(h, "empty")
          ELSE IF x \in NotTopicTexts[isReplyToTopicRequest]
          THEN Done([h EXCEPT !.expecting = isReplyToTopicRequest], "filtered")
          ELSE [h EXCEPT !.expecting = isReplyToTopicRequest, !.pc = "classify"])
    /\ UNCHANGED <<wnow, processedTopics, pendingTopicRequest, topicRequestMessages,
                   recentMessages, channelLog, accepted, requestedAt, acceptedSince>>
    /\ UNCHANGED storeVars
    /\ UNCHANGED historyVars
    /\ UNCHANGED mentionVars

\* detectTopicAnnouncement returns to handleChannelMessage or
\* handleChannelMessage for an event it answers without awaiting anything and
\* without registering a request: an empty text, or a text the filter
\* isObviouslyNotTopic rejects, in the channel or in the thread thread_ts.  The
\* handler has returned when the step ends
ChannelMessageFiltered(ts, x, inThread, thread_ts) ==
    LET expectingTopic ==
            IF inThread
            THEN thread_ts \in Ts /\ IsReplyToTopicRequest(thread_ts)
            ELSE ActiveRequest # NoRequest
    IN
    /\ ts = nextTs + 1
    /\ ts <= MaxBufferMsgs
    /\ nextTs' = ts
    /\ inThread => thread_ts \in 1..nextTs
    /\ x \in EmptyTexts \/ (x \notin RequestTexts /\ x \in NotTopicTexts[expectingTopic])
    /\ IF x \in EmptyTexts \/ inThread
       THEN UNCHANGED <<recentMessages, channelLog, pendingTopicRequest>>
       ELSE /\ recentMessages' = addToRecentMessages(ts)
            /\ channelLog' = Append(channelLog, ts)
            /\ pendingTopicRequest' = ActiveRequest
    /\ UNCHANGED <<wnow, processedTopics, topicRequestMessages, handlers, accepted,
                   requestedAt, acceptedSince>>
    /\ UNCHANGED storeVars
    /\ UNCHANGED historyVars
    /\ UNCHANGED mentionVars

\* handleThreadReply; a topic goes through checkDuplicate, which purges the
\* old entries, and on to the awaited determineCallType
Classified(ts, o) ==
    LET h == [handlers[ts] EXCEPT !.cls = o.cls]
        topicInfo == detectTopicAnnouncement(o)
    IN
    /\ handlers[ts].pc = "classify"
    /\ handlers[ts].kind \in {"channel", "thread"}
    /\ IF topicInfo.threw
       THEN /\ SetHandler(ts, Done(h, "threw"))
            /\ UNCHANGED processedTopics
       ELSE IF ~topicInfo.isTopic
       THEN /\ SetHandler(ts, Done(h, "nottopic"))
            /\ UNCHANGED processedTopics
       ELSE /\ processedTopics' = PurgedTopics
            /\ SetHandler(ts,
                  IF checkDuplicate(topicInfo.topic)
                  THEN Done(h, "duplicate")
                  ELSE [h EXCEPT !.pc = "calltype", !.topic = topicInfo.topic])
    /\ UNCHANGED <<wnow, nextTs, pendingTopicRequest, topicRequestMessages,
                   recentMessages, channelLog, accepted, requestedAt, acceptedSince>>
    /\ UNCHANGED storeVars
    /\ UNCHANGED historyVars
    /\ UNCHANGED mentionVars

\* Variant of the acceptance that checks for a duplicate once more before
\* it records the topic
CallTypeDoneRechecks(ts) ==
    LET h == handlers[ts] IN
    /\ h.pc = "calltype"
    /\ IF checkDuplicate(h.topic)
       THEN /\ SetHandler(ts, Done(h, "duplicate"))
            /\ UNCHANGED <<processedTopics, pendingTopicRequest, topicRequestMessages,
                           accepted, acceptedSince>>
       ELSE /\ processedTopics' = [processedTopics EXCEPT
                                      ![ts] = [topic |-> h.topic, timestamp |-> wnow]]
            /\ pendingTopicRequest' = NoRequest
            /\ topicRequestMessages' =
                  IF h.kind = "thread"
                  THEN [topicRequestMessages EXCEPT ![h.thread] = NotTracked]
                  ELSE topicRequestMessages
            /\ SetHandler(ts, [h EXCEPT !.pc = "notify"])
            /\ accepted' = accepted \cup {[topic |-> h.topic, at |-> wnow]}
            /\ acceptedSince' = TRUE
    /\ UNCHANGED <<wnow, nextTs, recentMessages, channelLog, requestedAt>>
    /\ UNCHANGED storeVars
    /\ UNCHANGED historyVars
    /\ UNCHANGED mentionVars

\* Variant of the acceptance in which a thread reply leaves the pending
\* request in place
CallTypeDoneThreadKeepsRequest(ts) ==
    LET h == handlers[ts] IN
    /\ h.pc = "calltype"
    /\ processedTopics' = [processedTopics EXCEPT
                              ![ts] = [topic |-> h.topic, timestamp |-> wnow]]
    /\ pendingTopicRequest' = IF h.kind = "thread" THEN pendingTopicRequest ELSE NoRequest
    /\ topicRequestMessages' =
          IF h.kind = "thread"
          THEN [topicRequestMessages EXCEPT ![h.thread] = NotTracked]
          ELSE topicRequestMessages
    /\ SetHandler(ts, [h EXCEPT !.pc = "notify"])
    /\ accepted' = accepted \cup {[topic |-> h.topic, at |-> wnow]}
    /\ acceptedSince' = TRUE
    /\ UNCHANGED <<wnow, nextTs, recentMessages, channelLog, requestedAt>>
    /\ UNCHANGED storeVars
    /\ UNCHANGED historyVars
    /\ UNCHANGED mentionVars

\* determineCallType returns (a failed schedule lookup is caught and gives
\* 'weekly'): markAsProcessed, the pending request is cleared, a thread
\* reply's parent is no longer tracked, and notifyAdminOfTopic is awaited
CallTypeDone(ts) ==
    LET h == handlers[ts] IN
    /\ h.pc = "calltype"
    /\ \E zoom \in ZoomOutcomes :
          IF determineCallType(zoom).threw
          THEN /\ SetHandler(ts, Done(h, "threw"))
               /\ UNCHANGED <<processedTopics, pendingTopicRequest,
                              topicRequestMessages, accepted, acceptedSince>>
          ELSE /\ processedTopics' = [processedTopics EXCEPT
                                        ![ts] = [topic |-> h.topic, timestamp |-> wnow]]
               /\ pendingTopicRequest' = NoRequest
               /\ topicRequestMessages' =
                     IF h.kind = "thread"
                     THEN [topicRequestMessages EXCEPT ![h.thread] = NotTracked]
                     ELSE topicRequestMessages
               /\ SetHandler(ts, [h EXCEPT !.pc = "notify"])
               /\ accepted' = accepted \cup {[topic |-> h.topic, at |-> wnow]}
               /\ acceptedSince' = TRUE
    /\ UNCHANGED <<wnow, nextTs, recentMessages, channelLog, requestedAt>>
    /\ UNCHANGED storeVars
    /\ UNCHANGED historyVars
    /\ UNCHANGED mentionVars

\* notifyAdminOfTopic returns: a failure to open the DM or to post is caught
\* and logged, and the handler returns as it does after a posted notification
NotifyDone(ts, ok) ==
    /\ handlers[ts].pc = "notify"
    /\ SetHandler(ts, Done(handlers[ts],
                           IF notifyAdminOfTopic(ok).threw THEN "threw" ELSE "accepted"))
    /\ UNCHANGED <<wnow, nextTs, processedTopics, pendingTopicRequest,
                   topicRequestMessages, recentMessages, channelLog, accepted, requestedAt,
                   acceptedSince>>
    /\ UNCHANGED storeVars
    /\ UNCHANGED historyVars
    /\ UNCHANGED mentionVars

\* handleAppMention after its `processedMentions.has(mentionKey)` test: the
\* entries older than the window are deleted, the key is set to now
MarkMention(ts) ==
    [k \in Ts |->
        IF k = ts THEN wnow
        ELSE IF /\ processedMentions[k] # NotTracked
                /\ wnow - processedMentions[k] > MENTION_WINDOW_MS
        THEN NotTracked
        ELSE processedMentions[k]]

\* handleAppMention from its first statement up to the awaited
\* claude.detectTopicInMessage(parsed.rawTopic, '', true)
Mention(ts, x) ==
    LET h == [IdleHandler EXCEPT !.kind = "mention", !.text = x]
    IN
    /\ Arrives(ts)
    /\ x \in MentionTexts
    /\ processedMentions' = MarkMention(ts)
    /\ mentionLog' = [mentionLog EXCEPT ![ts] = [text |-> x, at |-> wnow, runs |-> 1,
                                                  again |-> FALSE]]
    /\ SetHandler(ts,
          IF x \in EmptyTexts
          THEN Done(h, "asktopic")
          ELSE [h EXCEPT !.expecting = TRUE, !.pc = "classify"])
    /\ UNCHANGED <<wnow, processedTopics, pendingTopicRequest, topicRequestMessages,
                   recentMessages, channelLog, accepted, requestedAt, acceptedSince>>
    /\ UNCHANGED storeVars
    /\ UNCHANGED historyVars

\* The event of mention ts is delivered again (a retry of the event callback):
\* handleAppMention returns at once when processedMentions has the key, and
\* otherwise runs like the first time
MentionRedelivered(ts) ==
    LET x == mentionLog[ts].text
        h == [IdleHandler EXCEPT !.kind = "mention", !.text = x]
    IN
    /\ mentionLog[ts].runs > 0
    /\ IF processedMentions[ts] # NotTracked
       THEN UNCHANGED <<processedMentions, mentionLog, handlers>>
       ELSE /\ mentionLog[ts].runs < MaxRuns
            /\ handlers[ts].pc \in {"idle", "done"}
            /\ processedMentions' = MarkMention(ts)
            /\ mentionLog' = [mentionLog EXCEPT
                   ![ts].at = wnow,
                   ![ts].runs = @ + 1,
                   ![ts].again = (wnow - mentionLog[ts].at <= MENTION_WINDOW_MS)]
            /\ SetHandler(ts,
                  IF x \in EmptyTexts
                  THEN Done(h, "asktopic")
                  ELSE [h EXCEPT !.expecting = TRUE, !.pc = "classify"])
    /\ UNCHANGED <<wnow, nextTs, processedTopics, pendingTopicRequest,
                   topicRequestMessages, recentMessages, channelLog, accepted,
                   requestedAt, acceptedSince>>
    /\ UNCHANGED storeVars
    /\ UNCHANGED historyVars

\* claude.detectTopicInMessage returns to handleAppMention, or throws: the
\* call is not in a try block, so the exception leaves handleAppMention.
\* Without a topic the handler asks to rephrase; with one it goes on to
\* generate the reminders
MentionClassified(ts, o) ==
    LET h == [handlers[ts] EXCEPT !.cls = o.cls]
        topicInfo == detectTopicInMessage(o)
    IN
    /\ handlers[ts].pc = "classify"
    /\ handlers[ts].kind = "mention"
    /\ SetHandler(ts,
          IF topicInfo.threw THEN Done(h, "threw")
          ELSE IF ~topicInfo.isTopic \/ TopicTexts[topicInfo.topic] = <<>>
          THEN Done(h, "clarify")
          ELSE Done([h EXCEPT !.topic = topicInfo.topic], "generate"))
    /\ UNCHANGED <<wnow, nextTs, processedTopics, pendingTopicRequest,
                   topicRequestMessages, recentMessages, channelLog, accepted, requestedAt,
                   acceptedSince>>
    /\ UNCHANGED storeVars
    /\ UNCHANGED historyVars
    /\ UNCHANGED mentionVars

\* Time passes.  The watcher clock starts with the first chat event
Elapse(instants) ==
    /\ nextTs > 0
    /\ \E t \in instants : t > wnow /\ wnow' = t
    /\ UNCHANGED <<nextTs, processedTopics, pendingTopicRequest, topicRequestMessages,
                   recentMessages, channelLog, handlers, accepted, requestedAt, acceptedSince>>
    /\ UNCHANGED storeVars
    /\ UNCHANGED historyVars
    /\ UNCHANGED mentionVars

WatcherTick == Elapse(Instants)

WatcherTickLate == Elapse(LateInstants)

\* The cancel_reminder action arrives from the chat message of item `id`
\* (the handler is given the channel and the message ts only):
\* handleCancelReminder up to its awaited slack.updateMessage
CancelInvoke(t, id) ==
    /\ Free(t)
    /\ id \in 1..nextId
    /\ calls < MaxCalls
    /\ calls' = calls + 1
    /\ SetTask(t, [NewTask("cancel", id) EXCEPT !.pc = "cancel"])
    /\ UNCHANGED <<now, dbConfigured, rendered, nextId, pendingCache, db, inserts,
                   fetches, stored, approvedOk, edited, unhandled>>
    /\ UNCHANGED topicVars
    /\ UNCHANGED historyVars
    /\ UNCHANGED mentionVars

\* slack.updateMessage('Reminder generation cancelled.') completes, or throws
\* and the interactions endpoint answers 500
CancelDone(t, ok) ==
    /\ tasks[t].pc = "cancel"
    /\ SetTask(t, Finish(tasks[t], IF ok THEN "cancelled" ELSE "threw"))
    /\ UNCHANGED <<now, dbConfigured, rendered, nextId, pendingCache, db, inserts,
                   fetches, stored, approvedOk, edited, unhandled, calls>>
    /\ UNCHANGED topicVars
    /\ UNCHANGED historyVars
    /\ UNCHANGED mentionVars

-----------------------------------------------------------------------------
\* Audit log (services/pending-store.ts: tables call_history and sent_messages)

Meetings == 1..MaxMeetings

\* SQL NULL, and a field the caller leaves out (undefined)
Null == "(null)"

NoRow == [callType |-> Null, topic |-> Null, presenter |-> Null, status |-> Null,
          errorMessage |-> Null, youtubeUrl |-> Null, processedAt |-> -1]

\* The arguments of upsertCallHistory.  youtubeUrl stands for the six link
\* fields, which are all written the same way
HistoryEntries ==
    [meetingId : Meetings, callType : {"weekly", "monthly"}, topic : {"t1", "t2"},
     presenter : {Null, "Ann"},
     status : {Null, "processing", "completed", "failed"},
     errorMessage : {Null, "boom"}, youtubeUrl : {Null, "y1"}]

\* `value || fallback` on an optional string
OrElse(value, fallback) == IF value = Null \/ value = "" THEN fallback ELSE value

\* COALESCE($n, call_history.column)
Coalesce(param, column) == IF param # Null THEN param ELSE column

\* The row INSERT ... ON CONFLICT (meeting_id) DO UPDATE leaves for the
\* meeting: call_type and call_date are written by the INSERT only
UpsertRow(old, entry) ==
    LET presenter == OrElse(entry.presenter, "Stefan")
        status == OrElse(entry.status, "pending")
        errorMessage == OrElse(entry.errorMessage, Null)
        youtubeUrl == OrElse(entry.youtubeUrl, Null)
    IN
    IF old = NoRow
    THEN [callType |-> entry.callType, topic |-> entry.topic,
          presenter |-> presenter, status |-> status,
          errorMessage |-> errorMessage, youtubeUrl |-> youtubeUrl,
          processedAt |-> -1]
    ELSE [callType |-> old.callType,
          topic |-> Coalesce(entry.topic, old.topic),
          presenter |-> Coalesce(presenter, old.presenter),
          status |-> Coalesce(status, old.status),
          errorMessage |-> errorMessage,
          youtubeUrl |-> Coalesce(youtubeUrl, old.youtubeUrl),
          processedAt |-> IF status = "completed" THEN now ELSE old.processedAt]

\* upsertCallHistory(entry): without a database nothing is written; the one
\* statement is executed, or rejected and the error is thrown to the caller
UpsertCallHistory(entry, ok) ==
    /\ callHistory' =
          IF dbConfigured /\ ok
          THEN [callHistory EXCEPT
                   ![entry.meetingId] = UpsertRow(callHistory[entry.meetingId], entry)]
          ELSE callHistory
    /\ UNCHANGED <<sentMessages, chat>>
    /\ UNCHANGED storeVars
    /\ UNCHANGED topicVars
    /\ UNCHANGED mentionVars

----------------------------------------------------------------------------
\* The process restarts: module-level state (the cache, every in-flight
\* handler) is gone, the durable store and the queries already sent remain
Restart ==
    /\ pendingCache' = [i \in Ids |-> NoItem]
    /\ tasks' = [t \in Slots |-> IdleTask]
    /\ fetches' = {}
    /\ stored' = [i \in Ids |-> -1]
    /\ processedTopics' = [k \in Ts |-> NoTopic]
    /\ pendingTopicRequest' = NoRequest
    /\ topicRequestMessages' = [k \in Ts |-> NotTracked]
    /\ recentMessages' = <<>>
    /\ channelLog' = <<>>
    /\ handlers' = [k \in Ts |-> IdleHandler]
    /\ UNCHANGED <<now, dbConfigured, rendered, nextId, db, inserts, approvedOk, edited,
                   unhandled, calls>>
    /\ processedMentions' = [k \in Ts |-> NotTracked]
    /\ UNCHANGED <<wnow, nextTs, accepted, requestedAt, acceptedSince>>
    /\ UNCHANGED historyVars
    /\ UNCHANGED mentionLog

\* Time passes.  The clock starts with the first storePending: what precedes
\* it does not depend on the time
Tick ==
    /\ nextId > 0
    /\ now < MaxTime
    /\ now' = now + 1
    /\ UNCHANGED <<dbConfigured, rendered, nextId, pendingCache, db, inserts, fetches,
                   tasks, stored, approvedOk, edited,
                   unhandled, calls>>
    /\ UNCHANGED topicVars
    /\ UNCHANGED historyVars
    /\ UNCHANGED mentionVars

----------------------------------------------------------------------------
Init ==
    /\ now = 0
    /\ dbConfigured \in BOOLEAN
    /\ nextId = 0
    /\ pendingCache = [i \in Ids |-> NoItem]
    /\ db = [i \in Ids |-> NoItem]
    /\ inserts = {}
    /\ fetches = {}
    /\ tasks = [t \in Slots |-> IdleTask]
    /\ rendered = [i \in Ids |-> ""]
    /\ stored = [i \in Ids |-> -1]
    /\ approvedOk = [i \in Ids |-> FALSE]
    /\ edited = [i \in Ids |-> FALSE]
    /\ unhandled = FALSE
    /\ calls = 0
    /\ wnow = 0
    /\ nextTs = 0
    /\ processedTopics = [k \in Ts |-> NoTopic]
    /\ pendingTopicRequest = NoRequest
    /\ topicRequestMessages = [k \in Ts |-> NotTracked]
    /\ recentMessages = <<>>
    /\ channelLog = <<>>
    /\ handlers = [k \in Ts |-> IdleHandler]
    /\ accepted = {}
    /\ requestedAt = -1
    /\ acceptedSince = FALSE
    /\ sentMessages = <<>>
    /\ chat = <<>>
    /\ processedMentions = [k \in Ts |-> NotTracked]
    /\ mentionLog = [k \in Ts |-> NoMention]
    /\ callHistory = [k \in Meetings |-> NoRow]

Next ==
    \/ \E input \in CreateInputs : StorePending(input)
    \/ \E row \in inserts, ok \in BOOLEAN : InsertExec(row, ok)
    \/ \E id \in Ids : GetPending(id)
    \/ \E f \in fetches, ok \in BOOLEAN : FetchExec(f, ok)
    \/ \E f \in fetches : FetchThen(f)
    \/ \E t \in Slots, id \in Ids : Invoke(t, ApproveButton(rendered[id]), id)
    \/ \E t \in Slots, id \in Ids : Invoke(t, "get", id)
    \/ \E t \in Slots, ok \in BOOLEAN : DbSelect(t, ok)
    \/ \E t \in Slots : Selected(t)
    \/ \E t \in Slots, outcome \in {"ok", "rejected", "throw"} : SendDone(t, outcome)
    \/ \E t \in Slots, ok \in BOOLEAN : ConfirmDone(t, ok)
    \/ \E t \in Slots, ok \in BOOLEAN : DbDelete(t, ok)
    \/ \E t \in Slots : Deleted(t)
    \/ \E t \in Slots, id \in Ids, m \in NewMessages : ModalInvoke(t, id, m)
    \/ \E t \in Slots, ok \in BOOLEAN : DbUpdate(t, ok)
    \/ \E t \in Slots : Updated(t)
    \/ \E t \in Slots, ok \in BOOLEAN : PostDone(t, ok)
    \/ Restart
    \/ Tick

Spec == Init /\ [][Next]_vars

\* The approval flow alone: items are stored and approved
NextApprove ==
    \/ \E input \in CreateInputs : StorePending(input)
    \/ \E row \in inserts, ok \in BOOLEAN : InsertExec(row, ok)
    \/ \E t \in Slots, id \in Ids : Invoke(t, ApproveButton(rendered[id]), id)
    \/ \E t \in Slots, ok \in BOOLEAN : DbSelect(t, ok)
    \/ \E t \in Slots : Selected(t)
    \/ \E t \in Slots, outcome \in {"ok", "rejected", "throw"} : SendDone(t, outcome)
    \/ \E t \in Slots, ok \in BOOLEAN : ConfirmDone(t, ok)
    \/ \E t \in Slots, ok \in BOOLEAN : DbDelete(t, ok)
    \/ \E t \in Slots : Deleted(t)
    \/ Restart
    \/ Tick

SpecApprove == Init /\ [][NextApprove]_vars

\* The approve interaction as the endpoint serves it: the approval flow and
\* the endpoint's response
NextInteraction ==
    \/ NextApprove
    \/ \E t \in Slots, ok \in BOOLEAN : Respond(t, ok)

SpecInteraction == Init /\ [][NextInteraction]_vars

\* The read paths alone: items are stored and read
NextRead ==
    \/ \E input \in CreateInputs : StorePending(input)
    \/ \E row \in inserts, ok \in BOOLEAN : InsertExec(row, ok)
    \/ \E id \in Ids : GetPending(id)
    \/ \E f \in fetches, ok \in BOOLEAN : FetchExec(f, ok)
    \/ \E f \in fetches : FetchThen(f)
    \/ \E t \in Slots, id \in Ids : Invoke(t, "get", id)
    \/ \E t \in Slots, ok \in BOOLEAN : DbSelect(t, ok)
    \/ \E t \in Slots : Selected(t)
    \/ Restart
    \/ Tick

SpecRead == Init /\ [][NextRead]_vars

\* The chat events: channel messages, thread replies and mentions
NextTopic ==
    \/ \E ts \in Ts, x \in ChannelTexts : ChannelMessage(ts, x)
    \/ \E ts \in Ts, x \in ChannelTexts, thread_ts \in Ts : ThreadReply(ts, x, thread_ts)
    \/ \E ts \in Ts, o \in ClassifierOutcomes : Classified(ts, o)
    \/ \E ts \in Ts : CallTypeDone(ts)
    \/ \E ts \in Ts, ok \in BOOLEAN : NotifyDone(ts, ok)
    \/ \E ts \in Ts, x \in MentionTexts : Mention(ts, x)
    \/ \E ts \in Ts, o \in ClassifierOutcomes : MentionClassified(ts, o)
    \/ WatcherTick

\* The watcher does not use the store: its runs start without one
InitTopic == Init /\ ~dbConfigured

SpecTopic == InitTopic /\ [][NextTopic]_vars

\* A busy channel: more filtered messages than the buffer holds
NextBuffer ==
    \E ts \in 1..MaxBufferMsgs, x \in DOMAIN SampleTexts, inThread \in BOOLEAN,
       thread_ts \in {1} :
        ChannelMessageFiltered(ts, x, inThread, thread_ts)

SpecBuffer == InitTopic /\ [][NextBuffer]_vars

\* The edit flow: items are stored and edited by hand or by the generator
NextEdit ==
    \/ \E input \in EditInputs : StorePending(input)
    \/ \E row \in inserts, ok \in BOOLEAN : InsertExec(row, ok)
    \/ \E t \in Slots, id \in Ids, m \in NewMessages : ModalInvoke(t, id, m)
    \/ \E t \in Slots, id \in Ids : Invoke(t, "aiedit", id)
    \/ \E t \in Slots, ok \in BOOLEAN : DbSelect(t, ok)
    \/ \E t \in Slots : Selected(t)
    \/ \E t \in Slots, m \in RegeneratedMessages, ok \in BOOLEAN : RegenDone(t, m, ok)
    \/ \E t \in Slots, ok \in BOOLEAN : DbUpdate(t, ok)
    \/ \E t \in Slots : Updated(t)
    \/ \E t \in Slots, ok \in BOOLEAN : PostDone(t, ok)
    \/ Restart
    \/ Tick

SpecEdit == Init /\ [][NextEdit]_vars

\* Creates, edits and approves whose durable writes all succeed, with no
\* restart and no expiry
NextWrites ==
    \/ \E input \in CreateInputs : StorePending(input)
    \/ \E row \in inserts : InsertExec(row, TRUE)
    \/ \E t \in Slots, id \in Ids : Invoke(t, ApproveButton(rendered[id]), id)
    \/ \E t \in Slots, ok \in BOOLEAN : DbSelect(t, ok)
    \/ \E t \in Slots : Selected(t)
    \/ \E t \in Slots, outcome \in {"ok", "rejected", "throw"} : SendDone(t, outcome)
    \/ \E t \in Slots, ok \in BOOLEAN : ConfirmDone(t, ok)
    \/ \E t \in Slots : DbDelete(t, TRUE)
    \/ \E t \in Slots : Deleted(t)
    \/ \E t \in Slots, id \in Ids, m \in NewMessages : ModalInvoke(t, id, m)
    \/ \E t \in Slots : DbUpdate(t, TRUE)
    \/ \E t \in Slots : Updated(t)
    \/ \E t \in Slots, ok \in BOOLEAN : PostDone(t, ok)

SpecWrites == Init /\ [][NextWrites]_vars

\* Items are stored and listed
NextList ==
    \/ \E input \in CreateInputs : StorePending(input)
    \/ \E row \in inserts, ok \in BOOLEAN : InsertExec(row, ok)
    \/ \E t \in Slots : GetAllPending(t)
    \/ \E t \in Slots, ok \in BOOLEAN : ListDone(t, ok)
    \/ Restart
    \/ Tick

SpecList == Init /\ [][NextList]_vars

\* An AI-edit and an approve of the same items
NextAiEdit ==
    \/ \E input \in CreateInputs : StorePending(input)
    \/ \E row \in inserts, ok \in BOOLEAN : InsertExec(row, ok)
    \/ \E t \in Slots, id \in Ids : Invoke(t, "aiedit", id)
    \/ \E t \in Slots, id \in Ids : Invoke(t, ApproveButton(rendered[id]), id)
    \/ \E t \in Slots, ok \in BOOLEAN : DbSelect(t, ok)
    \/ \E t \in Slots : Selected(t)
    \/ \E t \in Slots, m \in RegeneratedMessages, ok \in BOOLEAN : RegenDone(t, m, ok)
    \/ \E t \in Slots, ok \in BOOLEAN : DbUpdate(t, ok)
    \/ \E t \in Slots : Updated(t)
    \/ \E t \in Slots, ok \in BOOLEAN : PostDone(t, ok)
    \/ \E t \in Slots, outcome \in {"ok", "rejected", "throw"} : SendDone(t, outcome)
    \/ \E t \in Slots, ok \in BOOLEAN : ConfirmDone(t, ok)
    \/ \E t \in Slots, ok \in BOOLEAN : DbDelete(t, ok)
    \/ \E t \in Slots : Deleted(t)

SpecAiEdit == Init /\ [][NextAiEdit]_vars

\* Mentions, their repeated deliveries and restarts of the process
NextMention ==
    \/ \E ts \in Ts, x \in MentionTexts : Mention(ts, x)
    \/ \E ts \in Ts : MentionRedelivered(ts)
    \/ \E ts \in Ts, o \in ClassifierOutcomes : MentionClassified(ts, o)
    \/ WatcherTick
    \/ Restart

SpecMention == InitTopic /\ [][NextMention]_vars

\* The approval flow with the cancel action
NextCancel ==
    \/ \E input \in CreateInputs : StorePending(input)
    \/ \E row \in inserts, ok \in BOOLEAN : InsertExec(row, ok)
    \/ \E t \in Slots, id \in Ids : CancelInvoke(t, id)
    \/ \E t \in Slots, ok \in BOOLEAN : CancelDone(t, ok)
    \/ \E t \in Slots, id \in Ids : Invoke(t, ApproveButton(rendered[id]), id)
    \/ \E t \in Slots, ok \in BOOLEAN : DbSelect(t, ok)
    \/ \E t \in Slots : Selected(t)
    \/ \E t \in Slots, outcome \in {"ok", "rejected", "throw"} : SendDone(t, outcome)
    \/ \E t \in Slots, ok \in BOOLEAN : ConfirmDone(t, ok)
    \/ \E t \in Slots, ok \in BOOLEAN : DbDelete(t, ok)
    \/ \E t \in Slots : Deleted(t)
    \/ Tick

SpecCancel == Init /\ [][NextCancel]_vars

\* The call history alone
NextHistory == \E entry \in HistoryEntries, ok \in BOOLEAN : UpsertCallHistory(entry, ok)

SpecHistory == Init /\ [][NextHistory]_vars

\* The chat events around the 4 h and 48 h windows of a topic request
NextWindow ==
    \/ \E ts \in Ts, x \in WindowTexts : ChannelMessage(ts, x)
    \/ \E ts \in Ts, x \in WindowTexts, thread_ts \in Ts : ThreadReply(ts, x, thread_ts)
    \/ \E ts \in Ts, o \in WindowOutcomes : Classified(ts, o)
    \/ \E ts \in Ts : CallTypeDone(ts)
    \/ \E ts \in Ts, ok \in BOOLEAN : NotifyDone(ts, ok)
    \/ WatcherTickLate

SpecWindow == InitTopic /\ [][NextWindow]_vars

----------------------------------------------------------------------------
\* Claims

IsApprove(t) == tasks[t].kind \in ApproveKinds

\* C1: two approve invocations for one id that run concurrently never both
\* perform the external send (the send happens once, the other invocation
\* finds the item gone).
C1_ConcurrentApprovesSendOnce ==
    \A t1, t2 \in Slots :
        (/\ t1 # t2
         /\ IsApprove(t1) /\ IsApprove(t2)
         /\ tasks[t1].id = tasks[t2].id
         /\ tasks[t1].pc # "done" /\ tasks[t2].pc # "done")
        => ~(tasks[t1].sent /\ tasks[t2].sent)

\* C2: an approve invoked after an earlier approve of the same id returned
\* success never reaches the external send and answers not-found (or ends
\* on a rejected lookup query), whatever the durable DELETE of the first
\* approve did.
C2_ApproveAfterSuccessIsNoOp ==
    \A t \in Slots :
        (IsApprove(t) /\ tasks[t].afterOk)
        => /\ tasks[t].pc \notin {"send", "confirm", "delete"}
           /\ ~tasks[t].sent
           /\ (tasks[t].pc = "done" => tasks[t].result \in {"notfound", "threw"})

\* C3: the step in which an approve fails at its send (no list configured,
\* the send is rejected or throws) deletes nothing: the durable row of the id
\* is as before, a cached item is as before, with its message and expiry,
\* and the clock has not moved, so a get that returned the item before the
\* step returns the same item after it.
C3_FailedSendKeepsItem ==
    [][\A t \in Slots :
         (/\ tasks[t].pc # "done"
          /\ tasks'[t].pc = "done"
          /\ tasks'[t].kind \in ApproveKinds
          /\ tasks'[t].result \in {"sendfail", "nolist"})
         => LET id == tasks'[t].id IN
            /\ db'[id] = db[id]
            /\ (pendingCache[id] # NoItem => pendingCache'[id] = pendingCache[id])
            /\ now' = now
      ]_vars

\* C3 witness: an approve failed at its send, the item is still returned by a
\* get with its original message, and a later approve of the id has sent it.
C3_Witness ==
    \E t1, t2 \in Slots :
        /\ t1 < t2
        /\ IsApprove(t1) /\ IsApprove(t2)
        /\ tasks[t1].id = tasks[t2].id
        /\ tasks[t1].pc = "done" /\ tasks[t1].result \in {"sendfail", "nolist"}
        /\ tasks[t2].sent /\ tasks[t2].pc = "confirm"
        /\ getPendingRet(tasks[t1].id).message = OriginalMessage

\* C4: an id stored by the running process and not deleted since is returned
\* by a get until it expires, whatever became of its INSERT (in flight,
\* succeeded, failed or never issued).
C4_GetSeesStoredItem ==
    \A id \in Ids :
        (stored[id] >= 0 /\ now <= stored[id] + EXPIRY_MS)
        => (getPendingRet(id) # NoItem /\ getPendingRet(id).id = id)

\* C4 witness: the INSERT of a stored id failed (no row, none in flight), and
\* getPendingWithFallback has returned the item.
C4_Witness ==
    \E id \in Ids, t \in Slots :
        /\ dbConfigured
        /\ stored[id] >= 0
        /\ db[id] = NoItem
        /\ \A row \in inserts : row.id # id
        /\ tasks[t].kind = "get" /\ tasks[t].id = id
        /\ tasks[t].pc = "done" /\ tasks[t].result = "found"

\* Whether a row created at T counts as unexpired on the durable path
DurableLive(row, inclusive) ==
    IF inclusive
    THEN now <= row.createdAt + EXPIRY_MS
    ELSE now < row.createdAt + EXPIRY_MS

\* The reads of one step: the cache path of getPending and of
\* getPendingWithFallback, and the durable path of both (the SELECTs)
ReadsFollowExpiry(inclusive) ==
    /\ \A id \in Ids :
          pendingCache[id] # NoItem
          => (getPendingRet(id) # NoItem
              <=> now <= pendingCache[id].createdAt + EXPIRY_MS)
    /\ \A t \in Slots :
          (/\ tasks[t].pc = "idle"
           /\ tasks'[t].kind = "get"
           /\ pendingCache[tasks'[t].id] # NoItem)
          => ((tasks'[t].pc = "done" /\ tasks'[t].result = "found")
              <=> now <= pendingCache[tasks'[t].id].createdAt + EXPIRY_MS)
    /\ \A t \in Slots :
          (/\ tasks[t].pc = "select" /\ tasks[t].q = "pending"
           /\ tasks'[t].pc = "select" /\ tasks'[t].q = "ok"
           /\ db[tasks[t].id] # NoItem)
          => (tasks'[t].row # NoItem <=> DurableLive(db[tasks[t].id], inclusive))
    /\ \A f \in fetches' \ fetches :
          (f.st = "done" /\ db[f.id] # NoItem)
          => (f.row # NoItem <=> DurableLive(db[f.id], inclusive))

\* C5 as stated: every read path returns an item created at T while
\* now <= T + 24 h and not-found once now > T + 24 h.
C5_ReadsExpireAfter24h == [][ReadsFollowExpiry(TRUE)]_vars

\* C5 amended: a read served from the cache returns the item while
\* now <= T + 24 h and not-found after; a read served from the durable store
\* returns it while now < T + 24 h and not-found from now = T + 24 h on.
C5_DurableReadsExpireAt24h == [][ReadsFollowExpiry(FALSE)]_vars

\* C5 witness: a durable read ran exactly at T + 24 h and found nothing,
\* while the row is still there.
C5_Witness ==
    \E t \in Slots :
        /\ tasks[t].pc = "select" /\ tasks[t].q = "ok"
        /\ tasks[t].row = NoItem
        /\ db[tasks[t].id] # NoItem
        /\ now = db[tasks[t].id].createdAt + EXPIRY_MS

\* C6: an approve invoked after a set-message of the id reported success
\* sends the new text, never the original message.
C6_ApproveSendsEditedText ==
    \A t \in Slots :
        (IsApprove(t) /\ tasks[t].afterEdit /\ tasks[t].pc = "send")
        => tasks[t].body # OriginalMessage

\* A topic accepted within the last 24 hours equals, contains or is contained
\* in the candidate, after lower-casing and trimming both
RecentSimilar(candidate) ==
    \E a \in accepted :
        /\ wnow - a.at <= DUPLICATE_WINDOW_MS
        /\ LET e == NormalForms[a.topic]
               n == NormalForms[candidate]
           IN e = n \/ includes(e, n) \/ includes(n, e)

\* C7: checkDuplicate(candidate) is true exactly when some topic accepted
\* within the last 24 hours, after lower-casing and trimming, equals,
\* contains or is contained in the candidate; older topics do not count.
C7_DuplicateIffRecentSimilar ==
    \A c \in Topics : checkDuplicate(c) <=> RecentSimilar(c)

\* C7 witness: a topic was suppressed as a duplicate, and a topic was accepted
\* a second time more than 24 hours after it was first accepted.
C7_Witness ==
    /\ \E ts \in Ts : handlers[ts].result = "duplicate"
    /\ \E a1, a2 \in accepted :
          /\ a1.topic = a2.topic
          /\ a2.at - a1.at > DUPLICATE_WINDOW_MS

\* C8: a classifier call that throws or whose answer cannot be parsed ends
\* the handler that made it with "not a topic": nothing is thrown to that
\* handler and no topic is accepted.
C8_ClassifierFailureFailsClosed ==
    \A ts \in Ts :
        handlers[ts].cls \in {"throw", "unparsable"}
        => /\ handlers[ts].pc = "done"
           /\ handlers[ts].result \in {"nottopic", "clarify"}

\* C9: a channel message or thread reply whose text is shorter than the
\* active minimum (10 when a topic is expected, otherwise 20) or is a canned
\* phrase never reaches the classifier and is not accepted: its handler has
\* returned at the filter.
C9_FilteredTextNeverClassified ==
    \A ts \in Ts :
        (/\ handlers[ts].kind \in {"channel", "thread"}
         /\ handlers[ts].text # 0
         /\ LET lowerText == LowerTexts[handlers[ts].text] IN
            \/ Len(lowerText) < (IF handlers[ts].expecting THEN 10 ELSE 20)
            \/ AlwaysSkip(lowerText))
        => /\ handlers[ts].pc = "done"
           /\ handlers[ts].result \in {"filtered", "empty"}
           /\ handlers[ts].cls = "none"

\* C9 witness: a thread reply to a tracked request was filtered as a canned
\* phrase of 10 characters or more, and a channel message was filtered for
\* its length while no topic was expected.
C9_Witness ==
    \E t1, t2 \in Ts :
        /\ handlers[t1].kind = "thread" /\ handlers[t1].result = "filtered"
        /\ handlers[t1].expecting
        /\ Len(SampleTexts[handlers[t1].text]) >= 10
        /\ handlers[t2].kind = "channel" /\ handlers[t2].result = "filtered"
        /\ ~handlers[t2].expecting
        /\ Len(SampleTexts[handlers[t2].text]) \in 10..19

\* The steps of a channel message that arrives within 4 hours of the last
\* topic request (and, if `untilAccepted`, before a topic was accepted since
\* that request): it is filtered with expectingTopic = true, so a text of 10
\* to 19 characters that is no canned phrase reaches the classifier; and a
\* channel message classified as a topic while a topic is expected goes on
\* to acceptance unless the topic is a duplicate, and is then recorded.
AwaitingSteps(untilAccepted) ==
    \A ts \in Ts :
        /\ (/\ handlers[ts].pc = "idle"
            /\ handlers'[ts].kind = "channel"
            /\ handlers'[ts].result \notin {"request", "empty"}
            /\ requestedAt >= 0
            /\ wnow - requestedAt <= TOPIC_REQUEST_WINDOW_MS
            /\ (untilAccepted => ~acceptedSince))
           => /\ handlers'[ts].expecting
              /\ LET text == SampleTexts[handlers'[ts].text] IN
                 (Len(text) \in 10..19 /\ ~AlwaysSkip(LowerTexts[handlers'[ts].text]))
                 => handlers'[ts].pc = "classify"
        /\ (/\ handlers[ts].pc = "classify"
            /\ handlers[ts].kind = "channel"
            /\ handlers[ts].expecting
            /\ handlers'[ts].cls = "topic")
           => IF handlers'[ts].pc = "calltype"
              THEN ~RecentSimilar(handlers'[ts].topic)
              ELSE handlers'[ts].result = "duplicate"
        /\ (/\ handlers[ts].pc = "calltype"
            /\ handlers'[ts].pc # "calltype")
           => /\ handlers'[ts].pc = "notify"
              /\ processedTopics'[ts] = [topic |-> handlers[ts].topic, timestamp |-> wnow]
              /\ [topic |-> handlers[ts].topic, at |-> wnow] \in accepted'

\* C10 as stated: after a topic request, every non-request channel message
\* arriving within 4 hours is filtered and classified with expectingTopic =
\* true, a text of 10 to 19 characters that is no canned phrase reaches the
\* classifier, and it is accepted when the classifier names a topic that is
\* not a duplicate.
C10_ExpectingFor4Hours == [][AwaitingSteps(FALSE)]_vars

\* C10 amended: the same for every non-request channel message arriving
\* within 4 hours of the last topic request and before any topic has been
\* accepted since that request.
C10_ExpectingUntilAccepted == [][AwaitingSteps(TRUE)]_vars

\* C10 witness: a channel message of 10 to 19 characters, handled while a
\* topic was expected, has been accepted.
C10_Witness ==
    \E ts \in Ts :
        /\ handlers[ts].kind = "channel"
        /\ handlers[ts].pc = "notify"
        /\ handlers[ts].expecting
        /\ Len(SampleTexts[handlers[ts].text]) \in 10..19
        /\ processedTopics[ts].topic = handlers[ts].topic

\* C11: when more than 4 hours have passed since the last topic request and no
\* topic was accepted since, the next non-request channel message is filtered
\* with expectingTopic = false (it is dropped exactly when it is shorter than
\* 20 characters, a canned phrase, a question or a promise to post later),
\* the tracker holds no request after the message's first step, and no later
\* step of a channel handler brings a request back.
C11_ExpiredRequestIsDropped ==
    [][\A ts \in Ts :
        /\ (/\ handlers[ts].pc = "idle"
            /\ handlers'[ts].kind = "channel"
            /\ handlers'[ts].result \notin {"request", "empty"}
            /\ requestedAt >= 0
            /\ wnow - requestedAt > TOPIC_REQUEST_WINDOW_MS
            /\ ~acceptedSince)
           => /\ pendingTopicRequest' = NoRequest
              /\ ~handlers'[ts].expecting
              /\ handlers'[ts].pc \in {"done", "classify"}
              /\ LET lowerText == LowerTexts[handlers'[ts].text] IN
                 handlers'[ts].pc = "done"
                    <=> \/ Len(lowerText) < 20
                        \/ AlwaysSkip(lowerText)
                        \/ SkipWhenNotExpecting(lowerText)
        /\ (/\ handlers[ts].pc \in {"classify", "calltype", "notify"}
            /\ handlers[ts].kind = "channel"
            /\ handlers'[ts] # handlers[ts])
           => pendingTopicRequest' \in {pendingTopicRequest, NoRequest}]_vars

\* C11 witness: a promise or a question of at least 20 characters, which the
\* filter lets through while a topic is expected, was dropped by the filter
\* after the request had expired, and the tracker holds no request.
C11_Witness ==
    \E ts \in Ts :
        /\ handlers[ts].kind = "channel"
        /\ handlers[ts].result = "filtered"
        /\ ~handlers[ts].expecting
        /\ Len(SampleTexts[handlers[ts].text]) >= 20
        /\ ~isObviouslyNotTopic(LowerTexts[handlers[ts].text], TRUE)
        /\ requestedAt >= 0
        /\ wnow - requestedAt > TOPIC_REQUEST_WINDOW_MS
        /\ ~acceptedSince
        /\ pendingTopicRequest = NoRequest

\* C12: a thread reply whose parent is a tracked topic-request message is
\* filtered with expectingTopic = true whether or not a request is pending (it
\* is dropped exactly when it is shorter than 10 characters or a canned
\* phrase) and goes to the classifier with expectingTopic = true; and the step
\* that accepts the topic of a thread reply removes the entry of that reply's
\* thread_ts from the tracked messages and leaves every other entry as it was.
C12_TrackedThreadReply ==
    [][\A ts \in Ts :
        /\ \A x \in DOMAIN SampleTexts, thread_ts \in Ts :
              (/\ ThreadReply(ts, x, thread_ts)
               /\ x \notin EmptyTexts
               /\ topicRequestMessages[thread_ts] # NotTracked)
              => /\ handlers'[ts].expecting
                 /\ handlers'[ts].pc \in {"done", "classify"}
                 /\ handlers'[ts].pc = "done"
                       <=> (Len(LowerTexts[x]) < 10 \/ AlwaysSkip(LowerTexts[x]))
        /\ (/\ handlers[ts].kind = "thread"
            /\ handlers[ts].pc = "classify"
            /\ handlers'[ts] # handlers[ts])
           => handlers'[ts].expecting = handlers[ts].expecting \/ handlers'[ts].pc = "done"
        /\ (/\ handlers[ts].kind = "thread"
            /\ handlers[ts].pc = "calltype"
            /\ handlers'[ts].pc = "notify")
           => \A k \in Ts :
                 topicRequestMessages'[k] =
                    IF k = handlers[ts].thread THEN NotTracked
                    ELSE topicRequestMessages[k]]_vars

\* C12 witness: a reply of 10 to 19 characters to a tracked request was
\* handled with expectingTopic = true and its topic accepted; the entry of its
\* thread is gone and the entry of another request is still tracked.
C12_Witness ==
    \E ts \in Ts :
        /\ handlers[ts].kind = "thread"
        /\ handlers[ts].pc = "notify"
        /\ handlers[ts].expecting
        /\ Len(SampleTexts[handlers[ts].text]) \in 10..19
        /\ topicRequestMessages[handlers[ts].thread] = NotTracked
        /\ \E k \in Ts : k # handlers[ts].thread /\ topicRequestMessages[k] # NotTracked

\* C13: when the UPDATE of updatePendingMessage or the DELETE of deletePending
\* is rejected, the cache mutation made before the write stays applied (the
\* edited message is in the cached item, the deleted item is out of the
\* cache), the rejection changes neither the cache nor the durable rows, the
\* operation resumes without throwing, and the boolean it returns is whether
\* the item was cached when the operation started, as after a successful
\* write.
C13_FailedWriteIsSwallowed ==
    [][\A t \in Slots :
        LET task == tasks[t]
            id == tasks'[t].id
        IN
        /\ (task.pc = "idle" /\ tasks'[t].pc = "update")
           => /\ tasks'[t].hadCached = (pendingCache[id] # NoItem)
              /\ pendingCache'[id] =
                    IF pendingCache[id] # NoItem
                    THEN [pendingCache[id] EXCEPT !.message = tasks'[t].body]
                    ELSE NoItem
        /\ (task.pc = "confirm" /\ tasks'[t].pc = "delete")
           => /\ tasks'[t].hadCached = (pendingCache[id] # NoItem)
              /\ pendingCache'[id] = NoItem
        /\ (task.pc \in {"update", "delete"} /\ task.q = "pending" /\ tasks'[t].q = "err")
           => /\ pendingCache' = pendingCache
              /\ db' = db
              /\ tasks'[t].hadCached = task.hadCached
        /\ (/\ task.pc = "update" /\ task.q \in {"ok", "err"}
            /\ tasks'[t] # task /\ tasks'[t].kind = task.kind)
           => /\ tasks'[t].result # "threw"
              /\ tasks'[t].result = "notfound" <=> ~task.hadCached
        /\ (/\ task.pc = "delete" /\ task.q \in {"ok", "err"}
            /\ tasks'[t] # task /\ tasks'[t].kind = task.kind)
           => tasks'[t].result = "success"]_vars

\* C13 witness: the UPDATE of a set-message whose item was cached has been
\* rejected; the cached item carries the new message and the durable row the
\* old one.
C13_Witness ==
    \E t \in Slots :
        /\ tasks[t].pc = "update"
        /\ tasks[t].q = "err"
        /\ tasks[t].hadCached
        /\ pendingCache[tasks[t].id] # NoItem
        /\ pendingCache[tasks[t].id].message = tasks[t].body
        /\ db[tasks[t].id] # NoItem
        /\ db[tasks[t].id].message # tasks[t].body

\* C14: a get for an id that is not in the cache while the durable store holds
\* an unexpired row for it returns that row and leaves it in the cache: the
\* synchronous getPending returns the row it would find, and a
\* getPendingWithFallback that missed the cache and whose query succeeded
\* returns the row and has put it in the cache.
C14_GetOnMissReturnsDurableRow ==
    [][/\ \A id \in Ids :
             (/\ GetPending(id)
              /\ dbConfigured
              /\ pendingCache[id] = NoItem
              /\ SelectRow(id) # NoItem)
             => /\ getPendingRet(id) = SelectRow(id)
                /\ pendingCache'[id] = SelectRow(id)
       /\ \A t \in Slots :
             (/\ tasks[t].kind = "get"
              /\ tasks[t].pc = "select"
              /\ tasks[t].repop
              /\ tasks[t].q = "ok"
              /\ tasks[t].row # NoItem
              /\ tasks'[t].pc = "done")
             => /\ tasks'[t].result = "found"
                /\ pendingCache'[tasks[t].id] = tasks[t].row]_vars

\* An id is missing or expired: no read of the cache and no query of the
\* durable store returns an item for it
Missing(id) == getPendingRet(id) = NoItem /\ SelectRow(id) = NoItem

\* C15: a handler invoked for an id that is missing or expired ends with a
\* not-found result and never with a throw, goes to no send and no preview,
\* and leaves the durable rows as they are: it returns not-found at once or
\* awaits a store call, and when its lookup has produced no item while the id
\* is still missing or expired, it returns not-found.
C15_MissingIdIsNotFound ==
    [][\A t \in Slots :
        LET id == tasks'[t].id IN
        /\ (/\ tasks[t].pc = "idle"
            /\ tasks'[t].pc # "idle"
            /\ Missing(id))
           => /\ tasks'[t].pc \in {"done", "select", "update"}
              /\ tasks'[t].pc = "done" => tasks'[t].result = "notfound"
              /\ ~tasks'[t].sent
              /\ db' = db
        /\ (/\ tasks[t].pc = "select"
            /\ tasks[t].q \in {"ok", "err"}
            /\ tasks[t].row = NoItem
            /\ Missing(tasks[t].id)
            /\ tasks'[t].kind = tasks[t].kind
            /\ tasks'[t] # tasks[t])
           => /\ tasks'[t].result = "notfound"
              /\ ~tasks'[t].sent
              /\ db' = db
              /\ pendingCache' = pendingCache]_vars

\* C16: every approve that has returned after a successful external send has
\* its audit record: the sent-message log holds at least one row per such
\* approve.
C16_AuditRecordPerSend ==
    Len(sentMessages) >=
        Cardinality({t \in Slots : /\ tasks[t].kind \in ApproveKinds
                                   /\ tasks[t].pc = "done"
                                   /\ tasks[t].sent})

\* C19: the tracker holds at most one active topic request, the last one
\* made: a new request replaces the pending one, a pending request is always
\* the last request with no topic accepted since, and every step that accepts
\* a topic, from a channel message or from a thread reply, leaves no pending
\* request.
C19_OneRequestClearedOnAccept ==
    /\ [](pendingTopicRequest # NoRequest
            => /\ pendingTopicRequest.askedAt = requestedAt
               /\ handlers[pendingTopicRequest.message].result = "request"
               /\ \A k \in Ts : handlers[k].result = "request"
                                   => k <= pendingTopicRequest.message
               /\ ~acceptedSince)
    /\ [][/\ \A ts \in Ts :
               (handlers[ts].pc = "idle" /\ handlers'[ts].result = "request")
               => pendingTopicRequest' = [askedAt |-> wnow, message |-> ts]
          /\ \A ts \in Ts :
               (handlers[ts].pc = "calltype" /\ handlers'[ts].pc = "notify")
               => /\ handlers[ts].kind \in {"channel", "thread"}
                  /\ pendingTopicRequest' = NoRequest
          /\ accepted' # accepted => pendingTopicRequest' = NoRequest]_vars

\* C19 witness: two topic requests were made, and the topic of a thread
\* reply has been accepted while the second request was pending; no request
\* is pending now.
C19_Witness ==
    \E ts \in Ts :
        /\ handlers[ts].kind = "thread"
        /\ handlers[ts].pc = "notify"
        /\ Cardinality({k \in Ts : handlers[k].result = "request"}) = 2
        /\ acceptedSince
        /\ pendingTopicRequest = NoRequest

\* C17: once a cancel action on a pending item has completed, the item is in
\* neither tier of the store, and every approve of its id invoked after the
\* cancel has made no send and, when finished, has returned not-found.
C17_CancelDeletesItem ==
    \A t \in Slots :
        (tasks[t].kind = "cancel" /\ tasks[t].result = "cancelled")
        => /\ pendingCache[tasks[t].id] = NoItem
           /\ db[tasks[t].id] = NoItem
           /\ \A u \in Slots :
                 (u > t /\ tasks[u].kind \in ApproveKinds /\ tasks[u].id = tasks[t].id)
                 => /\ ~tasks[u].sent
                    /\ tasks[u].pc = "done" => tasks[u].result = "notfound"

\* C18: an upsert on an existing meeting id changes no field the caller left
\* out: presenter, status, error message and link keep their previous value
\* unless the entry supplies one.
C18_UpsertKeepsUnsuppliedFields ==
    [][\A entry \in HistoryEntries :
          (/\ UpsertCallHistory(entry, TRUE)
           /\ dbConfigured
           /\ callHistory[entry.meetingId] # NoRow)
          => LET old == callHistory[entry.meetingId]
                 new == callHistory'[entry.meetingId]
             IN /\ entry.presenter = Null => new.presenter = old.presenter
                /\ entry.status = Null => new.status = old.status
                /\ entry.errorMessage = Null => new.errorMessage = old.errorMessage
                /\ entry.youtubeUrl = Null => new.youtubeUrl = old.youtubeUrl]_vars

\* C20: a thread reply that arrives more than 48 hours after its parent, a
\* topic-request message, was tracked is filtered and classified with
\* expectingTopic = false: it is dropped when shorter than 20 characters, a
\* question or a promise, and otherwise goes to the classifier without the
\* expectation.
C20_LateThreadReplyNotExpected ==
    [][\A ts \in Ts, x \in DOMAIN SampleTexts, thread_ts \in Ts :
          (/\ ThreadReply(ts, x, thread_ts)
           /\ x \notin EmptyTexts
           /\ topicRequestMessages[thread_ts] # NotTracked
           /\ wnow - topicRequestMessages[thread_ts] > TOPIC_REQUEST_MESSAGE_EXPIRY_MS)
          => /\ ~handlers'[ts].expecting
             /\ handlers'[ts].pc = "done"
                   <=> \/ Len(LowerTexts[x]) < 20
                       \/ AlwaysSkip(LowerTexts[x])
                       \/ SkipWhenNotExpecting(LowerTexts[x])]_vars

\* C21: nothing between checkDuplicate and markAsProcessed looks at the
\* processed topics again: a handler that has passed checkDuplicate records
\* its topic and goes on to notify the admin when determineCallType returns,
\* whatever other handlers have recorded meanwhile.  So two handlers that
\* both passed the check before either recorded are both accepted.
C21_AcceptanceIgnoresLaterRecords ==
    [][\A ts \in Ts :
          (handlers[ts].pc = "calltype" /\ handlers'[ts] # handlers[ts])
          => /\ handlers'[ts].pc = "notify"
             /\ processedTopics'[ts] = [topic |-> handlers[ts].topic, timestamp |-> wnow]
             /\ \A k \in Ts \ {ts} : processedTopics'[k] = processedTopics[k]]_vars

\* C21 witness: two messages carrying the same topic have both been accepted
\* at the same instant and the notification of each has been made.
C21_Witness ==
    \E t1, t2 \in Ts :
        /\ t1 # t2
        /\ handlers[t1].result = "accepted"
        /\ handlers[t2].result = "accepted"
        /\ processedTopics[t1] # NoTopic
        /\ processedTopics[t1].topic = processedTopics[t2].topic
        /\ processedTopics[t1].timestamp = processedTopics[t2].timestamp

\* C22: every pending item the store holds, in the cache, in the durable
\* store, in an INSERT on its way or in a row a read has fetched, expires
\* exactly 24 hours after its creation.
C22_ExpiresOneDayAfterCreation ==
    LET Sound(item) == item # NoItem => item.expiresAt = item.createdAt + 1 IN
    /\ \A id \in Ids : Sound(pendingCache[id]) /\ Sound(db[id])
    /\ \A row \in inserts : Sound(row)
    /\ \A f \in fetches : Sound(f.row)
    /\ \A t \in Slots : Sound(tasks[t].row)

\* C22 witness: an item created before the current tick is held in both
\* tiers, the cached copy with an edited message.
C22_Witness ==
    \E id \in Ids :
        /\ pendingCache[id] # NoItem
        /\ db[id] # NoItem
        /\ pendingCache[id].message # OriginalMessage
        /\ now > pendingCache[id].createdAt

\* An item without its message
Frame(item) == [item EXCEPT !.message = ""]

EditKinds == {"modal", "aiedit"}

\* C23: a step of a set-message or AI-edit handler (updatePendingMessage
\* included) leaves every other item as it was in the cache and in the durable
\* store, and changes of its own item only the message: the durable row is
\* neither created nor removed and keeps id, type, channel, callType, origin,
\* createdAt and expiresAt; the cache entry keeps them too, or is dropped
\* because it has expired, or is loaded from the durable row as it was fetched
C23_EditChangesOnlyTheMessage ==
    [][\A t \in Slots :
          (tasks'[t] # tasks[t] /\ tasks'[t].kind \in EditKinds)
          => LET id == tasks'[t].id IN
             /\ \A k \in Ids \ {id} :
                   pendingCache'[k] = pendingCache[k] /\ db'[k] = db[k]
             /\ Frame(db'[id]) = Frame(db[id])
             /\ \/ Frame(pendingCache'[id]) = Frame(pendingCache[id])
                \/ /\ pendingCache'[id] = NoItem
                   /\ now >= pendingCache[id].expiresAt
                \/ /\ pendingCache[id] = NoItem
                   /\ pendingCache'[id] = tasks[t].row
                   /\ Frame(tasks[t].row) = Frame(db[id])]_vars

\* C23: an AI-edit has succeeded on an item whose message is the regenerated
\* text in both tiers while another item keeps its original message
C23_Witness ==
    \E t \in Slots, k \in Ids :
        /\ tasks[t].kind = "aiedit" /\ tasks[t].result = "success"
        /\ k # tasks[t].id
        /\ pendingCache[tasks[t].id] # NoItem
        /\ pendingCache[tasks[t].id].message \in RegeneratedMessages
        /\ db[tasks[t].id].message \in RegeneratedMessages
        /\ pendingCache[k].message = OriginalMessage
        /\ db[k].message = OriginalMessage
        /\ pendingCache[k].slackMessageTs # pendingCache[tasks[t].id].slackMessageTs

\* The last n entries of a sequence
LastEntries(seq, n) ==
    IF Len(seq) <= n THEN seq ELSE SubSeq(seq, Len(seq) - n + 1, Len(seq))

\* C24: the recent-message buffer holds at most 12 entries, which are the
\* last (at most 12) non-empty messages of the watched channel outside threads,
\* in arrival order; handling a thread reply leaves the buffer as it was
C24_BufferHoldsLastTwelve ==
    /\ [](/\ Len(recentMessages) <= MAX_RECENT_MESSAGES
          /\ recentMessages = LastEntries(channelLog, MAX_RECENT_MESSAGES)
          /\ \A i, j \in 1..Len(recentMessages) :
                i < j => recentMessages[i] < recentMessages[j])
    /\ [][\A ts \in 1..MaxBufferMsgs, x \in DOMAIN SampleTexts :
             ChannelMessageFiltered(ts, x, TRUE, 1)
             => recentMessages' = recentMessages]_vars

\* C24: the buffer is full, its oldest message has been shifted out, and an
\* empty message or a thread reply has been handled too
C24_Witness ==
    /\ Len(recentMessages) = MAX_RECENT_MESSAGES
    /\ Len(channelLog) > MAX_RECENT_MESSAGES
    /\ recentMessages[1] # channelLog[1]
    /\ nextTs > Len(channelLog)

\* The copies of item id the store holds: cache entry, durable row, INSERT not
\* yet executed
Copies(id) ==
    {item \in {pendingCache[id], db[id]} \cup inserts : item # NoItem /\ item.id = id}

\* C25: the step in which a set-message or AI-edit handler succeeds appends
\* exactly one call to the chat log: a postMessage to the channel and thread of
\* the item's origin whose buttons carry the handler's pendingId; no other
\* step of such a handler makes a chat call, and none of them is an update of
\* a message rendered before
C25_EditPostsOnePreviewInThread ==
    [][\A t \in Slots :
          (tasks'[t] # tasks[t] /\ tasks'[t].kind \in EditKinds)
          => IF tasks'[t].result = "success"
             THEN /\ Len(chat') = Len(chat) + 1
                  /\ SubSeq(chat', 1, Len(chat)) = chat
                  /\ chat'[Len(chat')].op = "postMessage"
                  /\ chat'[Len(chat')].pendingId = tasks'[t].id
                  /\ \A item \in Copies(tasks'[t].id) :
                        /\ chat'[Len(chat')].channel = item.slackChannel
                        /\ chat'[Len(chat')].thread_ts = item.slackMessageTs
             ELSE chat' = chat]_vars

\* C25: an AI-edit has posted its preview in the thread of its item while the
\* store holds another item that was rendered in another thread
C25_Witness ==
    \E i \in 1..Len(chat), t \in Slots, k \in Ids :
        /\ tasks[t].kind = "aiedit" /\ tasks[t].result = "success"
        /\ chat[i].pendingId = tasks[t].id
        /\ pendingCache[tasks[t].id].message \in RegeneratedMessages
        /\ pendingCache[k] # NoItem
        /\ pendingCache[k].slackMessageTs # chat[i].thread_ts

\* C26: no run of handleChannelMessage, for a channel message or a thread
\* reply, ends by throwing; when the classifier fails the handler returns as
\* for a message that is no topic, and when the notification fails it returns
\* as after a posted one
C26_ChannelHandlerNeverThrows ==
    /\ [](\A ts \in Ts :
            handlers[ts].kind \in {"channel", "thread"} => handlers[ts].result # "threw")
    /\ [][\A ts \in Ts :
             /\ (\E o \in ClassifierOutcomes : o.cls = "throw" /\ Classified(ts, o))
                => handlers'[ts].pc = "done" /\ handlers'[ts].result = "nottopic"
             /\ NotifyDone(ts, FALSE)
                => handlers'[ts].pc = "done" /\ handlers'[ts].result = "accepted"
             /\ (handlers[ts].pc = "calltype" /\ handlers'[ts] # handlers[ts])
                => handlers'[ts].pc = "notify"]_vars

\* C26: the classifier has failed for a channel message and for a thread
\* reply, both handlers have returned, and a third has gone through the
\* schedule lookup and the notification
C26_Witness ==
    \E t1, t2, t3 \in Ts :
        /\ handlers[t1].kind = "channel" /\ handlers[t1].cls = "throw"
        /\ handlers[t1].pc = "done"
        /\ handlers[t2].kind = "thread" /\ handlers[t2].cls = "throw"
        /\ handlers[t2].pc = "done"
        /\ handlers[t3].result = "accepted"

\* C27: no read of the store ends with an exception or leaves a promise
\* rejection without a handler: no getPendingWithFallback has thrown, and no
\* background query started by getPending has been rejected with nothing
\* attached to catch it
C27_ReadFailureIsNotFound ==
    /\ ~unhandled
    /\ \A t \in Slots : tasks[t].kind = "get" => tasks[t].result # "threw"

\* C28: a get for an id that is invoked after deletePending(id) has returned
\* (the approve that called it has ended) does not return the item, whatever
\* the durable DELETE did and whenever the INSERT of storePending was executed
C28_DeletedItemStaysDeleted ==
    \A t \in Slots :
        (tasks[t].kind = "get" /\ tasks[t].afterOk) => tasks[t].result # "found"

\* C29: when an approve handler whose external send succeeded returns, the
\* cache no longer holds the item, also when the slack.updateMessage that
\* follows the send has failed
C29_SentItemIsDeletedOnReturn ==
    [][\A t \in Slots :
          (/\ tasks[t].pc # "done"
           /\ tasks'[t].pc = "done"
           /\ tasks'[t].kind \in ApproveKinds
           /\ tasks'[t].sent)
          => pendingCache'[tasks'[t].id] = NoItem]_vars

\* C30: while an updatePendingMessage that found nothing in the cache (and so
\* returns false) is running, none of its steps changes the item of its id,
\* in the cache or in the durable store
C30_FalseUpdateWritesNothing ==
    [][\A t \in Slots :
          (/\ tasks[t].pc = "update"
           /\ ~tasks[t].hadCached
           /\ tasks'[t] # tasks[t]
           /\ tasks'[t].kind = tasks[t].kind)
          => /\ db'[tasks[t].id] = db[tasks[t].id]
             /\ pendingCache'[tasks[t].id] = pendingCache[tasks[t].id]]_vars

\* C31: a set-message submitted for an id whose cached item has expired gets
\* false from updatePendingMessage and leaves the cached message as it was;
\* when the handler returns in the same step its answer is not-found
C31_ExpiredItemIsNotUpdated ==
    [][\A t \in Slots :
          LET id == tasks'[t].id IN
          (/\ tasks[t].pc = "idle"
           /\ tasks'[t].pc # "idle"
           /\ tasks'[t].kind = "modal"
           /\ pendingCache[id] # NoItem
           /\ CacheExpired(pendingCache[id]))
          => /\ ~tasks'[t].hadCached
             /\ pendingCache'[id] # NoItem
                => pendingCache'[id].message = pendingCache[id].message
             /\ tasks'[t].pc = "done" => tasks'[t].result = "notfound"]_vars

\* C32: with a durable store, when no INSERT is waiting and no handler is
\* between two of its steps, the durable store has a row for exactly the ids
\* the cache holds and each row has the cached message
C32_TiersAgreeWhenQuiet ==
    (/\ dbConfigured
     /\ inserts = {}
     /\ \A t \in Slots : tasks[t].pc \in {"idle", "done"})
    => \A id \in Ids :
          /\ (pendingCache[id] # NoItem) = (db[id] # NoItem)
          /\ pendingCache[id] # NoItem => db[id].message = pendingCache[id].message

\* C33: when getAllPending returns its list, the list has every id for which
\* a get by id (getPending or getPendingWithFallback) returns an item at that
\* moment, and only ids of items that have not expired
C33_ListHasEveryGettableItem ==
    [][\A t \in Slots :
          (/\ tasks[t].pc # "done"
           /\ tasks'[t].kind = "list"
           /\ tasks'[t].result = "listed")
          => /\ \A id \in Ids :
                   (getPendingRet(id) # NoItem \/ SelectRow(id) # NoItem)
                   => id \in tasks'[t].rows
             /\ \A id \in tasks'[t].rows :
                   \/ getPendingRet(id) # NoItem
                   \/ SelectRow(id) # NoItem]_vars

\* C34: the acceptance of a message leaves a pending topic request in place
\* when that request arrived after the accepted message (while the message
\* was being classified or its call type determined)
C34_LaterRequestSurvivesAcceptance ==
    [][\A ts \in Ts :
          (/\ handlers[ts].pc = "calltype"
           /\ handlers'[ts].pc = "notify"
           /\ pendingTopicRequest # NoRequest
           /\ pendingTopicRequest.message > ts)
          => pendingTopicRequest' = pendingTopicRequest]_vars

\* C35: when notifyAdminOfTopic has failed, the topic of the handler is not
\* in the dedup record once the handler has returned, so that a later message
\* with the same topic is not taken for a duplicate
C35_UnnotifiedTopicIsNotRecorded ==
    [][\A ts \in Ts :
          (NotifyDone(ts, FALSE) /\ ~notifyAdminOfTopic(FALSE).posted)
          => processedTopics'[ts] = NoTopic]_vars

\* C36: when handleAiEditModalSubmission returns success (its preview with
\* the buttons for the id has been posted), the store still holds the item of
\* the id, in the cache or as a durable row, with the regenerated message
C36_AiEditSuccessMeansItemUpdated ==
    [][\A t \in Slots :
          (/\ tasks[t].pc = "post"
           /\ tasks[t].kind = "aiedit"
           /\ tasks'[t].result = "success")
          => LET id == tasks[t].id IN
             \/ /\ pendingCache'[id] # NoItem
                /\ pendingCache'[id].message = tasks[t].body
             \/ /\ db'[id] # NoItem
                /\ db'[id].message = tasks[t].body]_vars

\* C37: no mention is run a second time by handleAppMention (classified and
\* answered again) within the one-minute window after its previous run: a
\* repeated delivery inside the window is dropped
C37_MentionRunsOncePerWindow ==
    \A ts \in Ts : ~mentionLog[ts].again

\* C38: while an approve interaction's external send is in flight, and while
\* the confirmation and the delete that follow it run, the endpoint has
\* already issued its response to the callback
C38_AckBeforeSend ==
    \A t \in Slots :
        (tasks[t].kind \in ApproveKinds /\ tasks[t].pc \in {"send", "confirm", "delete"})
        => tasks[t].response # "none"

====
